---- MODULE Spec2Model ----
(***************************************************************************)
(* A model of the deposit optimizer (component/depositOptimizer.ts), of    *)
(* the wallet balance formatting it reads (WalletManager.getTokenBalance), *)
(* of the strategy comparator of the deposit modal (renderSelectStep) and  *)
(* of the modal's sequential execution engine (handleExecute).             *)
(*                                                                         *)
(* JavaScript numbers are modelled by exact rationals [n, d] in lowest     *)
(* terms: a computed double differs from the exact value by rounding error *)
(* only, and Math.floor of a product that is an integer in exact           *)
(* arithmetic can lose one unit but never gain one.  Raw on-chain amounts  *)
(* (bigint strings) are integers.                                          *)
(***************************************************************************)
EXTENDS Integers, Sequences, FiniteSets, TLC

----------------------------------------------------------------------------
(* Bounds of the model.                                                    *)

\* At most this many assets of the wallet hold a non-zero amount.
MaxHoldings == 2

\* At most this many collaborator calls (balance, price, quote) fail in a run.
MaxFaults == 2

\* The longest balance list handed to a getBridgeQuotes call of its own.
MaxListLen == 21

\* The most includedSteps a quote has, and the most processes a route runs.
MaxIncludedSteps == 3
MaxProcesses == 3

\* The wallets of the execution runs hold the first 1..MaxLegs assets of
\* ExecHoldings, so a strategy has at most this many legs.
MaxLegs == 3

\* At most this many route updates are delivered by the bridge SDK in a run,
\* besides the notifications executeBridgeWithDetailedProgress sends itself.
MaxHookCalls == 1

\* Decimals of the native tokens of the modelled chains (ChainInfo.nativeToken
\* .decimals, supplied by the caller); kept small so that raw amounts fit the
\* model checker's integers.
NativeDecimals == 7

----------------------------------------------------------------------------
(* Exact rational arithmetic.                                              *)

Abs(x) == IF x < 0 THEN -x ELSE x

RECURSIVE GCD(_, _)
GCD(a, b) == IF b = 0 THEN a ELSE GCD(b, a % b)

Pow10(k) == CASE k = 0 -> 1 [] k = 1 -> 10 [] k = 2 -> 100 [] k = 3 -> 1000
              [] k = 4 -> 10000 [] k = 5 -> 100000 [] k = 6 -> 1000000
              [] k = 7 -> 10000000 [] k = 8 -> 100000000
              [] k = 9 -> 1000000000

\* The rational num/den (den # 0) in lowest terms with a positive denominator.
Rat(num, den) ==
    LET g == GCD(Abs(num), Abs(den))
        s == IF den < 0 THEN -1 ELSE 1
    IN  [n |-> s * (num \div g), d |-> s * (den \div g)]

RInt(k) == [n |-> k, d |-> 1]
RZero == RInt(0)
ROne == RInt(1)

\* Sum and product cancel common factors first, to keep intermediate values small.
RAdd(a, b) ==
    LET g == GCD(a.d, b.d)
    IN  Rat(a.n * (b.d \div g) + b.n * (a.d \div g), (a.d \div g) * b.d)
RNeg(a) == [n |-> -a.n, d |-> a.d]
RSub(a, b) == RAdd(a, RNeg(b))
RMul(a, b) ==
    LET x == Rat(a.n, b.d)
        y == Rat(b.n, a.d)
    IN  [n |-> x.n * y.n, d |-> x.d * y.d]
RInv(a) == Rat(a.d, a.n)
RDiv(a, b) == RMul(a, RInv(b))
RSign(a) == IF a.n > 0 THEN 1 ELSE IF a.n < 0 THEN -1 ELSE 0
RLt(a, b) == RSign(RSub(a, b)) < 0
RLe(a, b) == RSign(RSub(a, b)) <= 0
RMax(a, b) == IF RLt(a, b) THEN b ELSE a
\* Math.floor and Math.ceil (\div rounds toward minus infinity).
RFloor(a) == a.n \div a.d
RCeil(a) == -((-a.n) \div a.d)
Min(x, y) == IF x < y THEN x ELSE y

----------------------------------------------------------------------------
(* Strings.  A token symbol is a sequence of characters so that the        *)
(* substring tests of the classifiers are computed, not assumed.           *)

Includes(s, p) ==
    \E i \in 1..(Len(s) - Len(p) + 1) : SubSeq(s, i, i + Len(p) - 1) = p
StartsWith(s, p) == Len(p) <= Len(s) /\ SubSeq(s, 1, Len(p)) = p
EndsWith(s, p) == Len(p) <= Len(s) /\ SubSeq(s, Len(s) - Len(p) + 1, Len(s)) = p

LowerToUpper ==
    [c \in {"a", "d", "e", "f", "i", "r", "s", "x"} |->
        CASE c = "a" -> "A" [] c = "d" -> "D" [] c = "e" -> "E" [] c = "f" -> "F"
          [] c = "i" -> "I" [] c = "r" -> "R" [] c = "s" -> "S" [] c = "x" -> "X"]
\* String.prototype.toUpperCase on the letters the modelled symbols use.
ToUpperCase(s) ==
    [i \in DOMAIN s |-> IF s[i] \in DOMAIN LowerToUpper THEN LowerToUpper[s[i]] ELSE s[i]]

SymETH == <<"E", "T", "H">>
SymPOL == <<"P", "O", "L">>
SymUSDC == <<"U", "S", "D", "C">>
SymUSDT == <<"U", "S", "D", "T">>
SymXDAI == <<"x", "D", "A", "I">>
SymFRAX == <<"F", "R", "A", "X">>
SymUSD == <<"U", "S", "D">>

----------------------------------------------------------------------------
(* Constants of depositOptimizer.ts.                                       *)

ARBITRUM_CHAIN_ID == 42161
\* Addresses are modelled in lower case, the form every comparison of the code
\* (toLowerCase on both sides) reduces them to.
ARBITRUM_USDC_ADDRESS == "0xaf88d065e77c8cc2239327c5edb3a432268e5831"
MIN_HYPERLIQUID_DEPOSIT_USD == 5
MIN_BALANCE_USD == 1
MAX_TOKENS_TO_CHECK == 20
ZERO_ADDRESS == "0x0000000000000000000000000000000000000000"
NATIVE_TOKEN_ADDRESSES ==
    {ZERO_ADDRESS, "0xeeeeeeeeeeeeeeeeeeeeeeeeeeeeeeeeeeeeeeee"}
NATIVE_TOKEN_SYMBOLS ==
    { <<"E", "T", "H">>, <<"M", "A", "T", "I", "C">>, <<"P", "O", "L">>,
      <<"B", "N", "B">>, <<"F", "T", "M">>, <<"A", "V", "A", "X">>,
      <<"M", "O", "N">>, <<"H", "Y", "P", "E">>, <<"C", "E", "L", "O">>,
      <<"G", "L", "M", "R">>, <<"M", "O", "V", "R">>, <<"O", "N", "E">>,
      <<"K", "L", "A", "Y">>, <<"C", "R", "O">>, <<"M", "E", "T", "I", "S">>,
      <<"B", "O", "B", "A">> }

GAS_RESERVE_BY_CHAIN ==
    [c \in {1, 10, 56, 137, 250, 8453, 42161, 43114, 59144, 324, 534352, 999, 143} |->
        CASE c = 1 -> Rat(5, 1000)
          [] c = 10 -> Rat(1, 1000)
          [] c = 56 -> Rat(5, 10000)
          [] c = 137 -> RInt(3)
          [] c = 250 -> Rat(15, 10)
          [] c = 8453 -> Rat(3, 1000)
          [] c = 42161 -> Rat(1, 1000)
          [] c = 43114 -> Rat(5, 100)
          [] c = 59144 -> Rat(1, 1000)
          [] c = 324 -> Rat(1, 1000)
          [] c = 534352 -> Rat(1, 1000)
          [] c = 999 -> Rat(3, 100)
          [] c = 143 -> Rat(4, 10)]
DEFAULT_GAS_RESERVE == Rat(6, 10)

isNativeToken(tokenAddress, tokenSymbol) ==
    \/ tokenAddress \in NATIVE_TOKEN_ADDRESSES
    \/ ToUpperCase(tokenSymbol) \in NATIVE_TOKEN_SYMBOLS

getGasReserve(chainId) ==
    IF chainId \in DOMAIN GAS_RESERVE_BY_CHAIN
    THEN GAS_RESERVE_BY_CHAIN[chainId]
    ELSE DEFAULT_GAS_RESERVE

STABLECOIN_SYMBOLS ==
    { <<"U", "S", "D", "C">>, <<"U", "S", "D", "T">>, <<"D", "A", "I">>,
      <<"B", "U", "S", "D">>, <<"T", "U", "S", "D">>, <<"U", "S", "D", "P">>,
      <<"G", "U", "S", "D">>, <<"F", "R", "A", "X">>, <<"L", "U", "S", "D">>,
      <<"S", "U", "S", "D">>, <<"U", "S", "T">>, <<"M", "I", "M">> }

isStablecoin(tokenSymbol) ==
    LET upperSymbol == ToUpperCase(tokenSymbol)
    IN  \E stable \in STABLECOIN_SYMBOLS :
            \/ upperSymbol = stable
            \/ Includes(upperSymbol, stable)
            \/ StartsWith(upperSymbol, SymUSD)
            \/ EndsWith(upperSymbol, SymUSD)

\* The smallest-unit amount of roundedAmount tokens: the whole part and the
\* fractional part are converted separately and added.
ToSmallestUnit(roundedAmount, wholePart, decimalMultiplier) ==
    wholePart * decimalMultiplier
      + RFloor(RMul(RSub(roundedAmount, RInt(wholePart)), RInt(decimalMultiplier)))

RoundedToSmallest(roundedAmount, tokenDecimals) ==
    IF RSign(roundedAmount) <= 0 THEN 0
    ELSE ToSmallestUnit(roundedAmount, RFloor(roundedAmount), Pow10(tokenDecimals))

WholeToSmallest(wholeUnits, tokenDecimals) ==
    IF wholeUnits <= 0 THEN 0 ELSE wholeUnits * Pow10(tokenDecimals)

\* Math.floor(amount * scaleFactor) / scaleFactor
FloorTo(amount, scaleFactor) ==
    Rat(RFloor(RMul(amount, RInt(scaleFactor))), scaleFactor)

\* A rounding without the stablecoin case: four decimals for every token.
roundTokenAmountNoStable(amount, tokenDecimals, tokenSymbol) ==
    RoundedToSmallest(FloorTo(amount, Pow10(Min(tokenDecimals, 4))), tokenDecimals)

\* The raw amount (an integer of smallest units) roundTokenAmount returns for
\* `amount` (a rational number of tokens): whole units for a stablecoin, at
\* most 4 decimals otherwise.
roundTokenAmount(amount, tokenDecimals, tokenSymbol) ==
    IF isStablecoin(tokenSymbol)
    THEN WholeToSmallest(RFloor(amount), tokenDecimals)
    ELSE RoundedToSmallest(FloorTo(amount, Pow10(Min(tokenDecimals, 4))), tokenDecimals)

----------------------------------------------------------------------------
(* WalletManager.getTokenBalance: the on-chain raw amount formatted to a   *)
(* decimal string, read back with parseFloat by every consumer.            *)

\* Number.prototype.toFixed(k) of raw / 10^decimals, as a rational: the nearest
\* multiple of 10^-k, the larger one on a tie.
ToFixed(raw, decimals, k) ==
    IF k >= decimals
    THEN Rat(raw, Pow10(decimals))
    ELSE LET unit == Pow10(decimals - k)
         IN  Rat((raw + unit \div 2) \div unit, Pow10(k))

\* The value of formattedBalance for an on-chain amount of `raw` smallest units.
FormattedBalance(raw, decimals) ==
    LET balanceNum == Rat(raw, Pow10(decimals))
    IN  IF raw = 0 THEN RZero
        ELSE IF RLt(balanceNum, Rat(1, 100)) THEN ToFixed(raw, decimals, 6)
        ELSE IF RLt(balanceNum, ROne) THEN ToFixed(raw, decimals, 4)
        ELSE ToFixed(raw, decimals, 2)

----------------------------------------------------------------------------
(* The collaborators' side: the chains handed to the optimizer, what the   *)
(* wallet holds on-chain, the price service and the quote service.         *)

\* ChainInfo of the chains passed to calculateDepositPlan, in scan order.
Chains ==
    << [id |-> 1, nativeSymbol |-> SymETH, nativeDecimals |-> NativeDecimals],
       [id |-> 137, nativeSymbol |-> SymPOL, nativeDecimals |-> NativeDecimals],
       [id |-> 42161, nativeSymbol |-> SymETH, nativeDecimals |-> NativeDecimals],
       [id |-> 100, nativeSymbol |-> SymXDAI, nativeDecimals |-> NativeDecimals],
       [id |-> 252, nativeSymbol |-> SymFRAX, nativeDecimals |-> NativeDecimals] >>

\* The stablecoin table of getStablecoinBalances for the modelled chains.
StablecoinTable(chainId) ==
    CASE chainId = 1 ->
           << [address |-> "0xa0b86991c6218b36c1d19d4a2e9eb0ce3606eb48", symbol |-> SymUSDC, decimals |-> 6],
              [address |-> "0xdac17f958d2ee523a2206206994597c13d831ec7", symbol |-> SymUSDT, decimals |-> 6] >>
      [] chainId = 137 ->
           << [address |-> "0x3c499c542cef5e3811e1192ce70d8cc03d5c3359", symbol |-> SymUSDC, decimals |-> 6],
              [address |-> "0xc2132d05d31c914a87c6611c10748aeb04b58e8f", symbol |-> SymUSDT, decimals |-> 6] >>
      [] chainId = 42161 ->
           << [address |-> "0xaf88d065e77c8cc2239327c5edb3a432268e5831", symbol |-> SymUSDC, decimals |-> 6],
              [address |-> "0xfd086bc7cd5c481dcc9c85ebe478a1c0b69fcbb9", symbol |-> SymUSDT, decimals |-> 6] >>
      [] OTHER -> << >>

\* An asset is a chain id with a token address.
Slots ==
    UNION { {<<Chains[i].id, ZERO_ADDRESS>>}
              \cup {<<Chains[i].id, StablecoinTable(Chains[i].id)[j].address>> :
                      j \in DOMAIN StablecoinTable(Chains[i].id)} :
            i \in DOMAIN Chains }

\* The non-zero raw amounts the modelled wallets may hold of an asset.
HoldingChoices(slot) ==
    LET u == Pow10(NativeDecimals - 4)   \* 0.0001 native token
    IN  CASE slot = <<1, ZERO_ADDRESS>> -> {40 * u, 74 * u, 75 * u - 4}
          [] slot = <<1, "0xa0b86991c6218b36c1d19d4a2e9eb0ce3606eb48">> ->
                 {500000, 11996000, 12050000, 20000000}
          [] slot = <<137, ZERO_ADDRESS>> -> {25000 * u, 200000 * u}
          [] slot = <<137, "0xc2132d05d31c914a87c6611c10748aeb04b58e8f">> ->
                 {6000000, 20000000}
          [] slot = <<42161, "0xaf88d065e77c8cc2239327c5edb3a432268e5831">> -> {15000000}
          [] slot = <<100, ZERO_ADDRESS>> -> {84000 * u}
          [] slot = <<252, ZERO_ADDRESS>> -> {95000 * u}
          [] OTHER -> {}

Wallets ==
    LET held == {s \in Slots : HoldingChoices(s) # {}}
        amounts == UNION {HoldingChoices(s) : s \in held}
    IN  UNION { { [s \in Slots |-> IF s \in H THEN a[s] ELSE 0] :
                    a \in {f \in [H -> amounts] : \A s \in H : f[s] \in HoldingChoices(s)} } :
                H \in {X \in SUBSET held : Cardinality(X) <= MaxHoldings} }

\* priceUSD of each chain's native token at the price service.
NativePrice(chainId) ==
    CASE chainId = 1 -> RInt(2000)
      [] chainId = 137 -> Rat(1, 2)
      [] chainId = 42161 -> RInt(2000)
      [] OTHER -> ROne

\* What the quote service may answer: an output worth `eff` times the USD value
\* of the input, and its executionDuration (0: the field is absent).
QuoteProfiles ==
    { [eff |-> Rat(1, 2), duration |-> 30],
      [eff |-> Rat(49, 50), duration |-> 45],
      [eff |-> ROne, duration |-> 0],
      [eff |-> Rat(101, 100), duration |-> 60] }

\* quote.estimate.toAmount (raw USDC, 6 decimals) under a profile.
QuoteToAmount(balanceUSD, profile) ==
    ((balanceUSD.n * Pow10(6)) \div (balanceUSD.d * profile.eff.d)) * profile.eff.n

TargetAmounts == {5, 10}

\* The balance lists of a getBridgeQuotes call of its own: n USDC balances on
\* n chains, worth n + 4 down to 5 dollars, sorted by value except that the
\* entry at position `moved` has been put last (moved = n: the list is sorted).
ListChainId(i) == 1000 + i

ListBalance(n, i) ==
    [chainId |-> ListChainId(i),
     tokenAddress |-> "0x2791bca1f2de4661ed88a30c99a7a9449aa84174",
     tokenSymbol |-> SymUSDC, tokenDecimals |-> 6,
     balance |-> RInt(n + 5 - i), balanceUSD |-> RInt(n + 5 - i)]

BalanceList(n, moved) ==
    [i \in 1..n |-> IF i < moved THEN ListBalance(n, i)
                    ELSE IF i < n THEN ListBalance(n, i + 1)
                    ELSE ListBalance(n, moved)]

BalanceLists ==
    UNION { {BalanceList(n, moved) : moved \in 1..n} :
            n \in (MAX_TOKENS_TO_CHECK - 1)..MaxListLen }

\* The quote service answers one profile for the balances of these lists.
QuoteProfilesFor(balance) ==
    IF balance.chainId \in {ListChainId(i) : i \in 1..MaxListLen}
    THEN {[eff |-> Rat(49, 50), duration |-> 45]}
    ELSE QuoteProfiles

----------------------------------------------------------------------------
(* State.                                                                  *)

VARIABLES
    wallet,        \* collaborator: raw on-chain amount of every asset
    targetAmount,  \* the targetAmount of this calculateDepositPlan call
    phase,         \* "scanning" | "quoting" | "select": where the call stands
    chainIdx,      \* scanAllBalances: index of the chain scanned next
    allBalances,   \* scanAllBalances: the TokenBalances found so far
    quoteIdx,      \* getBridgeQuotes: index of the balance quoted next
    options,       \* getBridgeQuotes: the BridgeOptions built so far
    quoteLog,      \* collaborator: the quote requests received, in order
    faults,        \* collaborator calls that have failed so far
    scanFaults,    \* the failed calls of the scan: <<chain id, call>>
    depositPlan,   \* the DepositPlan returned, NoPlan before
    amount,        \* DepositModal: the requested amount typed by the user
    selectedStrategy,       \* "fastest" | "cheapest" | "none" (null)
    step,                   \* "select" | "executing" | "depositing" | "complete"
    executions,             \* BridgeExecution of every leg: status, progress, error
    currentExecutionIndex,  \* the leg handleExecute works on (1-based)
    overallComplete,
    hyperLiquidDeposit,     \* Null or the HyperLiquidDepositStatus
    pc,            \* the await handleExecute is suspended at:
                   \* "idle" | "quote" | "execute" | "balance" | "transfer" | "done"
    strategyToUse, \* handleExecute: the strategy being executed
    successfulBridgeCount,  \* handleExecute: local counter
    userRejected,           \* handleExecute: local flag
    freshQuote,    \* handleExecute: the quote fetched for the current leg
    calls,         \* collaborator calls issued, in order
    errorLog,      \* console.error of the catch block: raw message per failed leg
    hookCalls,     \* route updates delivered so far
    route,         \* collaborator: execution of the route's main step:
                   \* the status of each process, and the execution status
    stepsInfo,     \* executeBridgeWithDetailedProgress: the StepInfo array
    notifications, \* the DetailedBridgeProgress values delivered, in order
    bridgePc       \* "idle" | "executing" | "resolved" | "thrown"

planVars == <<wallet, targetAmount, phase, chainIdx, allBalances, quoteIdx,
              options, quoteLog, faults, scanFaults, depositPlan>>

execVars == <<amount, selectedStrategy, step, executions, currentExecutionIndex,
              overallComplete, hyperLiquidDeposit, pc, strategyToUse,
              successfulBridgeCount, userRejected, freshQuote, calls, errorLog,
              hookCalls>>

progVars == <<route, stepsInfo, notifications, bridgePc>>

vars == <<planVars, execVars, progVars>>

NoPlan == [none |-> TRUE]
Null == [null |-> TRUE]

----------------------------------------------------------------------------
(* Array.prototype.sort with the three comparators of the optimizer.  The  *)
(* sort is stable: elements the comparator ties keep their order.          *)

\* Comparators with the objectives upside down: slowest first, least
\* efficient first.
BeforeReversed(mode, a, b) ==
    CASE mode = "usd" -> RLt(b.balanceUSD, a.balanceUSD)
      [] mode = "fastest" ->
           IF a.estimatedTimeSeconds # b.estimatedTimeSeconds
           THEN a.estimatedTimeSeconds > b.estimatedTimeSeconds
           ELSE RLt(b.estimatedOutputUSD, a.estimatedOutputUSD)
      [] mode = "cheapest" ->
           IF a.efficiency # b.efficiency
           THEN RLt(a.efficiency, b.efficiency)
           ELSE RLt(b.estimatedOutputUSD, a.estimatedOutputUSD)

\* comparator(a, b) < 0
Before(mode, a, b) ==
    CASE mode = "usd" -> RLt(b.balanceUSD, a.balanceUSD)
      [] mode = "fastest" ->
           IF a.estimatedTimeSeconds # b.estimatedTimeSeconds
           THEN a.estimatedTimeSeconds < b.estimatedTimeSeconds
           ELSE RLt(b.estimatedOutputUSD, a.estimatedOutputUSD)
      [] mode = "cheapest" ->
           IF a.efficiency # b.efficiency
           THEN RLt(b.efficiency, a.efficiency)
           ELSE RLt(b.estimatedOutputUSD, a.estimatedOutputUSD)

\* An insertion that puts x before the elements it ties with.
InsertBeforeTies(mode, sorted, x) ==
    LET stay == {i \in DOMAIN sorted : Before(mode, sorted[i], x)}
        k == IF stay = {} THEN 0 ELSE CHOOSE i \in stay : \A j \in stay : j <= i
    IN  SubSeq(sorted, 1, k) \o <<x>> \o SubSeq(sorted, k + 1, Len(sorted))

InsertStable(mode, sorted, x) ==
    LET stay == {i \in DOMAIN sorted : ~Before(mode, x, sorted[i])}
        k == IF stay = {} THEN 0 ELSE CHOOSE i \in stay : \A j \in stay : j <= i
    IN  SubSeq(sorted, 1, k) \o <<x>> \o SubSeq(sorted, k + 1, Len(sorted))

RECURSIVE SortBy(_, _)
SortBy(mode, s) ==
    IF s = << >> THEN << >>
    ELSE InsertStable(mode, SortBy(mode, SubSeq(s, 1, Len(s) - 1)), s[Len(s)])

RECURSIVE SumUSD(_)
SumUSD(balances) ==
    IF balances = << >> THEN RZero
    ELSE RAdd(SumUSD(Tail(balances)), Head(balances).balanceUSD)

----------------------------------------------------------------------------
(* DepositOptimizer.selectOptimalBridges and calculateStrategies.          *)

\* A looser tolerance: 90% of the target.
CompletionToleranceLoose == Rat(90, 100)

\* No tolerance: only the target itself ends the loop.
CompletionToleranceNone == ROne

COMPLETION_TOLERANCE == Rat(95, 100)
MIN_BRIDGE_USD == 1

\* The inline stablecoin test of the selection loop.
LoopStableSymbols ==
    { <<"U", "S", "D", "C">>, <<"U", "S", "D", "T">>, <<"D", "A", "I">>,
      <<"B", "U", "S", "D">>, <<"T", "U", "S", "D">> }
LoopIsStablecoin(tokenSymbol) ==
    \E st \in LoopStableSymbols : Includes(ToUpperCase(tokenSymbol), st)

\* An available balance that forgets the gas reserve.
AvailableBalanceNoReserve(option) == option.from.balance

\* availableBalance of an option: its balance, less the gas reserve if native.
AvailableBalance(option) ==
    IF isNativeToken(option.from.tokenAddress, option.from.tokenSymbol)
    THEN RMax(RZero, RSub(option.from.balance, getGasReserve(option.from.chainId)))
    ELSE option.from.balance

MaxAvailableOutputUSD(option) ==
    RMul(RDiv(AvailableBalance(option), option.from.balance), option.estimatedOutputUSD)

\* The needed units without the extra unit.
UnitsNeededNoExtra(neededOutput) == RCeil(neededOutput)

\* The stablecoin branch: ceil(needed) + 1 whole units (one extra unit for the
\* fees), at most the whole units available.
UnitsNeeded(neededOutput) == RCeil(neededOutput) + 1

StableUnits(unitsToUse, tokenDecimals) ==
    IF unitsToUse < 1 THEN 0 ELSE unitsToUse * Pow10(tokenDecimals)

\* An allocation that always takes everything available.
UsedTokenAmountAll(availableBalance, maxAvailableOutputUSD, neededOutput) ==
    availableBalance

\* The other branch: everything available if that does not exceed the need,
\* else the needed fraction of it.
UsedTokenAmount(availableBalance, maxAvailableOutputUSD, neededOutput) ==
    IF RLe(maxAvailableOutputUSD, neededOutput)
    THEN availableBalance
    ELSE RMul(availableBalance, RDiv(neededOutput, maxAvailableOutputUSD))

AmountFrom(option, neededOutput, availableBalance) ==
    IF /\ isNativeToken(option.from.tokenAddress, option.from.tokenSymbol)
       /\ RSign(availableBalance) <= 0
    THEN 0
    ELSE IF LoopIsStablecoin(option.from.tokenSymbol)
    THEN StableUnits(Min(UnitsNeeded(neededOutput), RFloor(availableBalance)),
                     option.from.tokenDecimals)
    ELSE roundTokenAmount(
             UsedTokenAmount(availableBalance,
                 RMul(RDiv(availableBalance, option.from.balance),
                      option.estimatedOutputUSD),
                 neededOutput),
             option.from.tokenDecimals, option.from.tokenSymbol)

\* The raw amount the loop body computes for an option when `neededOutput` is
\* still missing; 0 stands for every `continue` taken before the amount exists.
UsedInputAmount(option, neededOutput) ==
    AmountFrom(option, neededOutput, AvailableBalance(option))

\* An allocation without the $1 floor.
AllocateValuesNoFloor(option, usedInputAmount, usedOutputUSD, actualFraction) ==
    [skip |-> FALSE,
     usedFees |-> RMul(actualFraction, option.estimatedFeesUSD),
     bridge |-> [from |-> option.from,
                 quote |-> option.quote,
                 estimatedOutputUSD |-> option.estimatedOutputUSD,
                 estimatedTimeSeconds |-> option.estimatedTimeSeconds,
                 estimatedFeesUSD |-> option.estimatedFeesUSD,
                 efficiency |-> option.efficiency,
                 usedInputUSD |-> RMul(actualFraction, option.from.balanceUSD),
                 usedOutputUSD |-> usedOutputUSD,
                 usedInputAmount |-> usedInputAmount]]

\* The allocated copy of the option, or [skip |-> TRUE] under the $1 floor.
AllocateValues(option, usedInputAmount, usedOutputUSD, actualFraction) ==
    IF RLt(usedOutputUSD, RInt(MIN_BRIDGE_USD))
    THEN [skip |-> TRUE]
    ELSE [skip |-> FALSE,
          usedFees |-> RMul(actualFraction, option.estimatedFeesUSD),
          bridge |-> [from |-> option.from,
                      quote |-> option.quote,
                      estimatedOutputUSD |-> option.estimatedOutputUSD,
                      estimatedTimeSeconds |-> option.estimatedTimeSeconds,
                      estimatedFeesUSD |-> option.estimatedFeesUSD,
                      efficiency |-> option.efficiency,
                      usedInputUSD |-> RMul(actualFraction, option.from.balanceUSD),
                      usedOutputUSD |-> usedOutputUSD,
                      usedInputAmount |-> usedInputAmount]]

AllocateFraction(option, usedInputAmount, actualFraction) ==
    AllocateValues(option, usedInputAmount,
                   RMul(actualFraction, option.estimatedOutputUSD), actualFraction)

\* The USD values are recomputed from the rounded amount.
AllocateAmount(option, usedInputAmount) ==
    IF usedInputAmount = 0 THEN [skip |-> TRUE]
    ELSE AllocateFraction(option, usedInputAmount,
             RDiv(Rat(usedInputAmount, Pow10(option.from.tokenDecimals)),
                  option.from.balance))

\* One pass of the loop body: [skip |-> TRUE], or the allocated copy of the
\* option with the fees of the used part.
Allocate(option, neededOutput) ==
    AllocateAmount(option, UsedInputAmount(option, neededOutput))

Accumulate(acc, a, option) ==
    [bridges |-> Append(acc.bridges, a.bridge),
     totalOutput |-> RAdd(acc.totalOutput, a.bridge.usedOutputUSD),
     totalInput |-> RAdd(acc.totalInput, a.bridge.usedInputUSD),
     totalFees |-> RAdd(acc.totalFees, a.usedFees),
     totalTime |-> acc.totalTime + option.estimatedTimeSeconds]

\* The loop from option i on; acc holds the running totals.
RECURSIVE SelectLoop(_, _, _, _)
SelectNext(target, sortedOptions, i, acc, a) ==
    IF a.skip THEN SelectLoop(target, sortedOptions, i + 1, acc)
    ELSE SelectLoop(target, sortedOptions, i + 1, Accumulate(acc, a, sortedOptions[i]))

SelectLoop(target, sortedOptions, i, acc) ==
    IF i > Len(sortedOptions) THEN acc
    ELSE IF RLe(target, acc.totalOutput) THEN acc
    ELSE IF RLe(RMul(target, COMPLETION_TOLERANCE), acc.totalOutput) THEN acc
    ELSE SelectNext(target, sortedOptions, i, acc,
                    Allocate(sortedOptions[i], RSub(target, acc.totalOutput)))

StrategyOf(strategy, r) ==
    IF r.bridges = << >> THEN Null
    ELSE [type |-> strategy,
          bridges |-> r.bridges,
          totalInputUSD |-> r.totalInput,
          totalOutputUSD |-> r.totalOutput,
          totalTimeSeconds |-> r.totalTime,
          totalFeesUSD |-> r.totalFees,
          efficiency |-> IF RSign(r.totalInput) > 0
                         THEN RDiv(r.totalOutput, r.totalInput) ELSE RZero]

EmptySelection ==
    [bridges |-> << >>, totalOutput |-> RZero, totalInput |-> RZero,
     totalFees |-> RZero, totalTime |-> 0]

selectOptimalBridges(target, opts, strategy) ==
    StrategyOf(strategy, SelectLoop(target, SortBy(strategy, opts), 1, EmptySelection))

\* Strategies whose legs are the options themselves, written in place: a leg
\* of the first strategy that the second one allocates too shows the second
\* allocation.
SharedLegs(st, later) ==
    IF st = Null \/ later = Null THEN st
    ELSE [st EXCEPT !.bridges =
            [k \in DOMAIN st.bridges |->
                IF \E j \in DOMAIN later.bridges : later.bridges[j].from = st.bridges[k].from
                THEN later.bridges[CHOOSE j \in DOMAIN later.bridges :
                                      later.bridges[j].from = st.bridges[k].from]
                ELSE st.bridges[k]]]

calculateStrategiesShared(target, opts) ==
    IF opts = << >> THEN [fastest |-> Null, cheapest |-> Null]
    ELSE [fastest |-> SharedLegs(selectOptimalBridges(target, opts, "fastest"),
                                 selectOptimalBridges(target, opts, "cheapest")),
          cheapest |-> selectOptimalBridges(target, opts, "cheapest")]

calculateStrategies(target, opts) ==
    IF opts = << >> THEN [fastest |-> Null, cheapest |-> Null]
    ELSE [fastest |-> selectOptimalBridges(target, opts, "fastest"),
          cheapest |-> selectOptimalBridges(target, opts, "cheapest")]

----------------------------------------------------------------------------
(* DepositOptimizer.scanAllBalances, one chain per step.                   *)

TokenBalance(chainId, address, symbol, decimals, balance, balanceUSD) ==
    [chainId |-> chainId, tokenAddress |-> address, tokenSymbol |-> symbol,
     tokenDecimals |-> decimals, balance |-> balance, balanceUSD |-> balanceUSD]

\* The entry pushed for a balance: none when it is zero or worth less than
\* MIN_BALANCE_USD.
Retained(chainId, address, symbol, decimals, balanceNum, balanceUSD) ==
    IF RSign(balanceNum) > 0 /\ RLe(RInt(MIN_BALANCE_USD), balanceUSD)
    THEN << TokenBalance(chainId, address, symbol, decimals, balanceNum, balanceUSD) >>
    ELSE << >>

NativeValued(chain, nativeBalanceNum, priceKnown) ==
    Retained(chain.id, ZERO_ADDRESS, chain.nativeSymbol, chain.nativeDecimals,
             nativeBalanceNum,
             IF priceKnown THEN RMul(nativeBalanceNum, NativePrice(chain.id)) ELSE RZero)

\* The native entry of a chain; an unpriced token (price null) is worth 0.
NativeBalances(chain, priceKnown) ==
    NativeValued(chain,
        FormattedBalance(wallet[<<chain.id, ZERO_ADDRESS>>], chain.nativeDecimals),
        priceKnown)

\* A stablecoin is valued at $1 a unit.
StableValued(chain, stable, balanceNum) ==
    Retained(chain.id, stable.address, stable.symbol, stable.decimals,
             balanceNum, balanceNum)

StableBalance(chain, stable) ==
    StableValued(chain, stable,
        FormattedBalance(wallet[<<chain.id, stable.address>>], stable.decimals))

\* getStablecoinBalances followed by the MIN_BALANCE_USD filter of the caller;
\* the fetch of table entry `failed` (0: none) throws and is skipped.
RECURSIVE StablecoinBalances(_, _, _)
StablecoinBalances(chain, j, failed) ==
    IF j > Len(StablecoinTable(chain.id)) THEN << >>
    ELSE (IF j = failed THEN << >>
          ELSE StableBalance(chain, StablecoinTable(chain.id)[j]))
           \o StablecoinBalances(chain, j + 1, failed)

\* What one iteration of the chain loop appends under a fault: "none", the
\* native balance fetch throws ("native": the catch skips the whole chain), the
\* price lookup yields null ("price"), or the fetch of stablecoin k throws.
StableFault == <<"stable1", "stable2">>
ChainBalances(chain, fault) ==
    IF fault = "native" THEN << >>
    ELSE NativeBalances(chain, fault # "price")
           \o StablecoinBalances(chain, 1,
                 IF \E k \in DOMAIN StableFault : StableFault[k] = fault
                 THEN CHOOSE k \in DOMAIN StableFault : StableFault[k] = fault
                 ELSE 0)

\* Some asset of the chain is held.
HoldsOn(chain) ==
    \/ wallet[<<chain.id, ZERO_ADDRESS>>] > 0
    \/ \E k \in DOMAIN StablecoinTable(chain.id) :
         wallet[<<chain.id, StablecoinTable(chain.id)[k].address>>] > 0

\* The faults one iteration may meet.  Only a failing call that changes what
\* the iteration appends is modelled: a failed fetch of a zero balance appends
\* nothing, as the fetch itself does.
ScanFaults(chain) ==
    {"none"} \cup
    (IF faults < MaxFaults
     THEN {f \in {"native"} : HoldsOn(chain)}
            \cup {f \in {"price"} : wallet[<<chain.id, ZERO_ADDRESS>>] > 0}
            \cup {StableFault[k] : k \in {j \in DOMAIN StablecoinTable(chain.id) :
                      wallet[<<chain.id, StablecoinTable(chain.id)[j].address>>] > 0}}
     ELSE {})

----------------------------------------------------------------------------
(* DepositOptimizer.getBridgeQuotes, one balance per step, and the plan    *)
(* calculateDepositPlan returns.                                           *)

\* A test that takes no balance for the destination asset.
AtDestinationNever(balance) == FALSE

AtDestination(balance) ==
    balance.chainId = ARBITRUM_CHAIN_ID /\ balance.tokenAddress = ARBITRUM_USDC_ADDRESS

\* amountInSmallestUnit: Math.floor(parseFloat(balance) * 10^decimals)
AmountInSmallestUnit(balance) ==
    RFloor(RMul(balance.balance, RInt(Pow10(balance.tokenDecimals))))

\* A list that is not cut.
BalancesToQuoteAll(balances) == balances

BalancesToQuote(balances) == SubSeq(balances, 1, Min(Len(balances), MAX_TOKENS_TO_CHECK))

\* The option built from a quote: its output is toAmount / 1e6 USD.
OptionOf(balance, quote, outputAmount) ==
    [from |-> balance,
     quote |-> quote,
     estimatedOutputUSD |-> outputAmount,
     estimatedTimeSeconds |-> IF quote.executionDuration # 0
                              THEN quote.executionDuration ELSE 60,
     estimatedFeesUSD |-> RMax(RZero, RSub(balance.balanceUSD, outputAmount)),
     efficiency |-> RDiv(outputAmount, balance.balanceUSD)]

BridgeOption(balance, quote) == OptionOf(balance, quote, Rat(quote.toAmount, Pow10(6)))

\* The quote service's answer to a request for `fromAmount` under a profile.
QuoteFor(balance, fromAmount, profile) ==
    [fromAmount |-> fromAmount,
     toAmount |-> QuoteToAmount(balance.balanceUSD, profile),
     executionDuration |-> profile.duration]

InsufficientPlan(available) ==
    [targetAmount |-> targetAmount, availableBalanceUSD |-> available,
     fastest |-> Null, cheapest |-> Null, insufficientFunds |-> TRUE]

PlanOf(available, st) ==
    [targetAmount |-> targetAmount, availableBalanceUSD |-> available,
     fastest |-> st.fastest, cheapest |-> st.cheapest, insufficientFunds |-> FALSE]

\* The plan returned once getBridgeQuotes has returned `opts`: no routes
\* (both strategies null) when there is no option.
QuotedPlan(available, opts) ==
    IF opts = << >> THEN PlanOf(available, [fastest |-> Null, cheapest |-> Null])
    ELSE PlanOf(available, calculateStrategies(targetAmount, opts))

\* Leaves the quote loop at position idx with options opts: the loop goes on,
\* or getBridgeQuotes returns and calculateDepositPlan builds the plan.
QuoteLoopAt(idx, opts, balances) ==
    IF idx <= Len(BalancesToQuote(balances))
    THEN /\ phase' = "quoting"
         /\ quoteIdx' = idx
         /\ options' = opts
         /\ depositPlan' = NoPlan
    ELSE /\ phase' = "select"
         /\ quoteIdx' = idx
         /\ options' = opts
         /\ depositPlan' = QuotedPlan(SumUSD(balances), opts)

\* A variant that goes on to the quote loop whatever the balances are worth.
AfterScanAlwaysQuotes(sorted, available) ==
    /\ allBalances' = sorted
    /\ QuoteLoopAt(1, << >>, sorted)

\* The end of scanAllBalances (the sort) and what calculateDepositPlan does
\* with the result: the insufficient-funds plan, or the quote loop.
AfterScan(sorted, available) ==
    /\ allBalances' = sorted
    /\ IF RLt(available, targetAmount)
       THEN /\ phase' = "select"
            /\ depositPlan' = InsufficientPlan(available)
            /\ UNCHANGED <<quoteIdx, options>>
       ELSE QuoteLoopAt(1, << >>, sorted)

ScanSorted(sorted) == AfterScan(sorted, SumUSD(sorted))

ScanFound(found) ==
    IF chainIdx < Len(Chains)
    THEN /\ allBalances' = found
         /\ UNCHANGED <<phase, quoteIdx, options, depositPlan>>
    ELSE ScanSorted(SortBy("usd", found))

ScanChain ==
    /\ phase = "scanning"
    /\ chainIdx <= Len(Chains)
    /\ \E fault \in ScanFaults(Chains[chainIdx]) :
         /\ faults' = IF fault = "none" THEN faults ELSE faults + 1
         /\ scanFaults' = IF fault = "none" THEN scanFaults
                          ELSE scanFaults \cup {<<Chains[chainIdx].id, fault>>}
         /\ chainIdx' = chainIdx + 1
         /\ ScanFound(allBalances \o ChainBalances(Chains[chainIdx], fault))
    /\ UNCHANGED <<wallet, targetAmount, quoteLog>>
    /\ UNCHANGED <<execVars, progVars>>

\* A catch that gives up the remaining balances.
QuoteThrowsEndsLoop(idx) ==
    QuoteLoopAt(Len(BalancesToQuote(allBalances)) + 1, options, allBalances)

\* The catch block of the quote loop: the failure of the request for balance
\* idx is logged, no option is added, and the loop goes on.
QuoteThrows(idx) == QuoteLoopAt(idx + 1, options, allBalances)

\* One iteration of the quote loop for `balance`.
QuoteStep(balance, fromAmount) ==
    IF AtDestination(balance) \/ fromAmount = 0
    THEN /\ QuoteLoopAt(quoteIdx + 1, options, allBalances)
         /\ UNCHANGED <<quoteLog, faults>>
    ELSE /\ quoteLog' = Append(quoteLog,
               [chainId |-> balance.chainId, tokenAddress |-> balance.tokenAddress,
                fromAmount |-> fromAmount])
         /\ \/ /\ faults < MaxFaults      \* the quote request throws
               /\ faults' = faults + 1
               /\ QuoteThrows(quoteIdx)
            \/ \E profile \in QuoteProfilesFor(balance) :
                 /\ faults' = faults
                 /\ QuoteLoopAt(quoteIdx + 1,
                       Append(options,
                              BridgeOption(balance, QuoteFor(balance, fromAmount, profile))),
                       allBalances)

QuoteAmount(balance) == QuoteStep(balance, AmountInSmallestUnit(balance))

QuoteBalance ==
    /\ phase = "quoting"
    /\ QuoteAmount(BalancesToQuote(allBalances)[quoteIdx])
    /\ UNCHANGED <<wallet, targetAmount, chainIdx, allBalances, scanFaults>>
    /\ UNCHANGED <<execVars, progVars>>

PlanInit ==
    /\ wallet \in Wallets
    /\ targetAmount \in {RInt(t) : t \in TargetAmounts}
    /\ phase = "scanning"
    /\ chainIdx = 1
    /\ allBalances = << >>
    /\ quoteIdx = 1
    /\ options = << >>
    /\ quoteLog = << >>
    /\ faults = 0
    /\ scanFaults = {}
    /\ depositPlan = NoPlan

----------------------------------------------------------------------------
(* DepositModal.renderSelectStep: which strategy cards the selection step  *)
(* shows for a plan with both strategies.                                  *)

RAbs(a) == [n |-> Abs(a.n), d |-> a.d]

BridgeIds(strategy) ==
    { <<strategy.bridges[k].from.chainId, strategy.bridges[k].from.tokenSymbol,
        strategy.bridges[k].usedInputAmount>> : k \in DOMAIN strategy.bridges }

areSameBridges(fastest, cheapest) ==
    /\ Len(fastest.bridges) = Len(cheapest.bridges)
    /\ BridgeIds(fastest) \subseteq BridgeIds(cheapest)

strategiesAreIdentical(fastest, cheapest) ==
    /\ areSameBridges(fastest, cheapest)
    /\ Abs(fastest.totalTimeSeconds - cheapest.totalTimeSeconds) <= 1
    /\ RLt(RAbs(RSub(fastest.totalFeesUSD, cheapest.totalFeesUSD)), Rat(1, 100))
    /\ RLt(RAbs(RSub(fastest.totalOutputUSD, cheapest.totalOutputUSD)), Rat(10, 100))

\* a is faster or equal, cheaper or equal, and its output is at least 95% of b's.
Dominates(a, b) ==
    /\ a.totalTimeSeconds <= b.totalTimeSeconds
    /\ RLe(a.totalFeesUSD, b.totalFeesUSD)
    /\ RLe(RMul(b.totalOutputUSD, Rat(95, 100)), a.totalOutputUSD)

\* A hiding condition that only looks at speed and fees.
ShowOnlyFaster(a, b) ==
    a.totalTimeSeconds < b.totalTimeSeconds /\ RLe(a.totalFeesUSD, b.totalFeesUSD)

\* A hiding condition that only looks at one-sided dominance.
ShowOnlyDominant(a, b) == Dominates(a, b) /\ ~Dominates(b, a)

\* The condition under which only strategy a is shown and b is hidden.
ShowOnly(a, b) ==
    \/ Dominates(a, b) /\ ~Dominates(b, a)
    \/ a.totalTimeSeconds < b.totalTimeSeconds /\ RLe(a.totalFeesUSD, b.totalFeesUSD)

\* showFastest, showCheapest and singleBestStrategy of renderSelectStep.
Cards(fastest, cheapest) ==
    IF fastest = Null \/ cheapest = Null
    THEN [showFastest |-> fastest # Null, showCheapest |-> cheapest # Null,
          singleBestStrategy |-> "none"]
    ELSE IF strategiesAreIdentical(fastest, cheapest)
    THEN [showFastest |-> TRUE, showCheapest |-> FALSE, singleBestStrategy |-> "fastest"]
    ELSE IF ShowOnly(cheapest, fastest)
    THEN [showFastest |-> FALSE, showCheapest |-> TRUE, singleBestStrategy |-> "cheapest"]
    ELSE IF ShowOnly(fastest, cheapest)
    THEN [showFastest |-> TRUE, showCheapest |-> FALSE, singleBestStrategy |-> "fastest"]
    ELSE [showFastest |-> TRUE, showCheapest |-> TRUE, singleBestStrategy |-> "none"]

----------------------------------------------------------------------------
(* Error messages.  A message is a sequence of characters so that the      *)
(* substring tests of isUserRejection and getDepositErrorMessage are       *)
(* computed.                                                               *)

UpperCaseLetters ==
    << "A", "B", "C", "D", "E", "F", "G", "H", "I", "J", "K", "L", "M",
       "N", "O", "P", "Q", "R", "S", "T", "U", "V", "W", "X", "Y", "Z" >>
LowerCaseLetters ==
    << "a", "b", "c", "d", "e", "f", "g", "h", "i", "j", "k", "l", "m",
       "n", "o", "p", "q", "r", "s", "t", "u", "v", "w", "x", "y", "z" >>
LowerOf(c) ==
    IF \E k \in DOMAIN UpperCaseLetters : UpperCaseLetters[k] = c
    THEN LowerCaseLetters[CHOOSE k \in DOMAIN UpperCaseLetters : UpperCaseLetters[k] = c]
    ELSE c
\* String.prototype.toLowerCase
ToLowerCase(s) == [i \in DOMAIN s |-> LowerOf(s[i])]

IncludesAny(s, patterns) == \E p \in patterns : Includes(s, p)

\* Messages of the errors the collaborators throw.
\* "User rejected the request."
MsgUserRejected ==
    << "U", "s", "e", "r", " ", "r", "e", "j", "e", "c", "t", "e", "d", " ",
       "t", "h", "e", " ", "r", "e", "q", "u", "e", "s", "t", "." >>
\* "code=ACTION_REJECTED"
MsgActionRejected ==
    << "c", "o", "d", "e", "=", "A", "C", "T", "I", "O", "N", "_", "R", "E",
       "J", "E", "C", "T", "E", "D" >>
\* "insufficient funds for gas"
MsgInsufficientFunds ==
    << "i", "n", "s", "u", "f", "f", "i", "c", "i", "e", "n", "t", " ", "f",
       "u", "n", "d", "s", " ", "f", "o", "r", " ", "g", "a", "s" >>
\* "execution reverted"
MsgReverted ==
    << "e", "x", "e", "c", "u", "t", "i", "o", "n", " ", "r", "e", "v", "e",
       "r", "t", "e", "d" >>
\* A revert reason of more than 100 characters:
\* "execution reverted: ERC20: transfer amount exceeds allowance
\*  (action=\"estimateGas\", data=\"0x08c379a0\", code=CALL_EXCEPTION)"
MsgLongRevert ==
    << "e", "x", "e", "c", "u", "t", "i", "o", "n", " ", "r", "e", "v",
       "e", "r", "t", "e", "d", ":", " ", "E", "R", "C", "2", "0", ":",
       " ", "t", "r", "a", "n", "s", "f", "e", "r", " ", "a", "m", "o",
       "u", "n", "t", " ", "e", "x", "c", "e", "e", "d", "s", " ", "a",
       "l", "l", "o", "w", "a", "n", "c", "e", " ", "(", "a", "c", "t",
       "i", "o", "n", "=", "\"", "e", "s", "t", "i", "m", "a", "t", "e",
       "G", "a", "s", "\"", ",", " ", "d", "a", "t", "a", "=", "\"", "0",
       "x", "0", "8", "c", "3", "7", "9", "a", "0", "\"", ",", " ", "c",
       "o", "d", "e", "=", "C", "A", "L", "L", "_", "E", "X", "C", "E",
       "P", "T", "I", "O", "N", ")" >>
\* "Failed to get bridge quote. Please try again."
MsgQuoteFailed ==
    << "F", "a", "i", "l", "e", "d", " ", "t", "o", " ", "g", "e", "t", " ",
       "b", "r", "i", "d", "g", "e", " ", "q", "u", "o", "t", "e", ".", " ",
       "P", "l", "e", "a", "s", "e", " ", "t", "r", "y", " ", "a", "g", "a",
       "i", "n", "." >>
\* "Bridge failed"
MsgBridgeFailed ==
    << "B", "r", "i", "d", "g", "e", " ", "f", "a", "i", "l", "e", "d" >>
\* "Deposit failed"
MsgDepositFailed ==
    << "D", "e", "p", "o", "s", "i", "t", " ", "f", "a", "i", "l", "e", "d" >>
\* "No wallet found"
MsgNoWallet ==
    << "N", "o", " ", "w", "a", "l", "l", "e", "t", " ", "f", "o", "u", "n",
       "d" >>

\* The messages shown to the user.
\* "Transaction cancelled. You rejected the transaction in your wallet."
FriendlyCancelled ==
    << "T", "r", "a", "n", "s", "a", "c", "t", "i", "o", "n", " ", "c", "a",
       "n", "c", "e", "l", "l", "e", "d", ".", " ", "Y", "o", "u", " ", "r",
       "e", "j", "e", "c", "t", "e", "d", " ", "t", "h", "e", " ", "t", "r",
       "a", "n", "s", "a", "c", "t", "i", "o", "n", " ", "i", "n", " ", "y",
       "o", "u", "r", " ", "w", "a", "l", "l", "e", "t", "." >>
\* "Quote expired. The amount changed since the quote was fetched. Please try again."
FriendlyQuoteExpired ==
    << "Q", "u", "o", "t", "e", " ", "e", "x", "p", "i", "r", "e", "d", ".",
       " ", "T", "h", "e", " ", "a", "m", "o", "u", "n", "t", " ", "c", "h",
       "a", "n", "g", "e", "d", " ", "s", "i", "n", "c", "e", " ", "t", "h",
       "e", " ", "q", "u", "o", "t", "e", " ", "w", "a", "s", " ", "f", "e",
       "t", "c", "h", "e", "d", ".", " ", "P", "l", "e", "a", "s", "e", " ",
       "t", "r", "y", " ", "a", "g", "a", "i", "n", "." >>
\* "Insufficient funds. You may not have enough tokens or gas to complete this transaction."
FriendlyInsufficient ==
    << "I", "n", "s", "u", "f", "f", "i", "c", "i", "e", "n", "t", " ", "f",
       "u", "n", "d", "s", ".", " ", "Y", "o", "u", " ", "m", "a", "y", " ",
       "n", "o", "t", " ", "h", "a", "v", "e", " ", "e", "n", "o", "u", "g",
       "h", " ", "t", "o", "k", "e", "n", "s", " ", "o", "r", " ", "g", "a",
       "s", " ", "t", "o", " ", "c", "o", "m", "p", "l", "e", "t", "e", " ",
       "t", "h", "i", "s", " ", "t", "r", "a", "n", "s", "a", "c", "t", "i",
       "o", "n", "." >>
\* "Network error. Please check your connection and try again."
FriendlyNetwork ==
    << "N", "e", "t", "w", "o", "r", "k", " ", "e", "r", "r", "o", "r", ".",
       " ", "P", "l", "e", "a", "s", "e", " ", "c", "h", "e", "c", "k", " ",
       "y", "o", "u", "r", " ", "c", "o", "n", "n", "e", "c", "t", "i", "o",
       "n", " ", "a", "n", "d", " ", "t", "r", "y", " ", "a", "g", "a", "i",
       "n", "." >>
\* "Price changed too much. Please try again with a smaller amount."
FriendlySlippage ==
    << "P", "r", "i", "c", "e", " ", "c", "h", "a", "n", "g", "e", "d", " ",
       "t", "o", "o", " ", "m", "u", "c", "h", ".", " ", "P", "l", "e", "a",
       "s", "e", " ", "t", "r", "y", " ", "a", "g", "a", "i", "n", " ", "w",
       "i", "t", "h", " ", "a", " ", "s", "m", "a", "l", "l", "e", "r", " ",
       "a", "m", "o", "u", "n", "t", "." >>
\* "Validation failed. Please go back and try again with a fresh quote."
FriendlyValidation ==
    << "V", "a", "l", "i", "d", "a", "t", "i", "o", "n", " ", "f", "a", "i",
       "l", "e", "d", ".", " ", "P", "l", "e", "a", "s", "e", " ", "g", "o",
       " ", "b", "a", "c", "k", " ", "a", "n", "d", " ", "t", "r", "y", " ",
       "a", "g", "a", "i", "n", " ", "w", "i", "t", "h", " ", "a", " ", "f",
       "r", "e", "s", "h", " ", "q", "u", "o", "t", "e", "." >>
\* "Transaction cancelled. You rejected the deposit."
DepositCancelled ==
    << "T", "r", "a", "n", "s", "a", "c", "t", "i", "o", "n", " ", "c", "a",
       "n", "c", "e", "l", "l", "e", "d", ".", " ", "Y", "o", "u", " ", "r",
       "e", "j", "e", "c", "t", "e", "d", " ", "t", "h", "e", " ", "d", "e",
       "p", "o", "s", "i", "t", "." >>
DigitChars == << "0", "1", "2", "3", "4", "5", "6", "7", "8", "9" >>

\* The decimal digits of a natural number.
RECURSIVE DecimalDigits(_)
DecimalDigits(k) ==
    IF k < 10 THEN << DigitChars[k + 1] >>
    ELSE Append(DecimalDigits(k \div 10), DigitChars[(k % 10) + 1])

CentsText(cents) ==
    DecimalDigits(cents \div 100)
      \o << ".", DigitChars[((cents \div 10) % 10) + 1], DigitChars[(cents % 10) + 1] >>

\* Number.prototype.toFixed(2) of a non-negative amount, as text.
ToFixed2Text(a) == CentsText(RFloor(RAdd(RMul(a, RInt(100)), Rat(1, 2))))

\* "Minimum deposit is $5 USDC. Deposit amount: $<amount> USDC."
MinimumDepositError(depositAmount) ==
    << "M", "i", "n", "i", "m", "u", "m", " ", "d", "e", "p", "o", "s", "i",
       "t", " ", "i", "s", " ", "$" >>
      \o DecimalDigits(MIN_HYPERLIQUID_DEPOSIT_USD)
      \o << " ", "U", "S", "D", "C", ".", " ", "D", "e", "p", "o", "s", "i", "t",
            " ", "a", "m", "o", "u", "n", "t", ":", " ", "$" >>
      \o ToFixed2Text(depositAmount)
      \o << " ", "U", "S", "D", "C", "." >>

RejectionPatterns ==
    { << "u", "s", "e", "r", " ", "r", "e", "j", "e", "c", "t", "e", "d" >>,
      << "u", "s", "e", "r", " ", "d", "e", "n", "i", "e", "d" >>,
      << "u", "s", "e", "r", " ", "c", "a", "n", "c", "e", "l", "l", "e", "d" >>,
      << "u", "s", "e", "r", " ", "c", "a", "n", "c", "e", "l", "e", "d" >>,
      << "r", "e", "j", "e", "c", "t", "e", "d", " ", "t", "h", "e", " ", "r",
         "e", "q", "u", "e", "s", "t" >>,
      << "b", "u", "n", "d", "l", "e", " ", "i", "d", " ", "i", "s", " ", "u",
         "n", "k", "n", "o", "w", "n" >>,
      << "h", "a", "s", " ", "n", "o", "t", " ", "b", "e", "e", "n", " ", "s",
         "u", "b", "m", "i", "t", "t", "e", "d" >>,
      << "n", "o", " ", "m", "a", "t", "c", "h", "i", "n", "g", " ", "b", "u",
         "n", "d", "l", "e" >>,
      << "a", "c", "t", "i", "o", "n", "_", "r", "e", "j", "e", "c", "t", "e",
         "d" >> }
QuoteExpiredPatterns ==
    { << "f", "r", "o", "m", "a", "m", "o", "u", "n", "t", " ", "m", "u", "s",
         "t", " ", "b", "e", " ", "e", "q", "u", "a", "l", " ", "t", "o", " ",
         "c", "o", "n", "s", "t", "a", "n", "t" >>,
      << "m", "u", "s", "t", " ", "b", "e", " ", "e", "q", "u", "a", "l", " ",
         "t", "o", " ", "c", "o", "n", "s", "t", "a", "n", "t" >> }
InsufficientPatterns ==
    { << "i", "n", "s", "u", "f", "f", "i", "c", "i", "e", "n", "t" >>,
      << "n", "o", "t", " ", "e", "n", "o", "u", "g", "h" >>,
      << "e", "x", "c", "e", "e", "d", "s", " ", "b", "a", "l", "a", "n", "c",
         "e" >> }
NetworkPatterns ==
    { << "n", "e", "t", "w", "o", "r", "k" >>,
      << "r", "p", "c" >>,
      << "t", "i", "m", "e", "o", "u", "t" >>,
      << "c", "o", "n", "n", "e", "c", "t", "i", "o", "n" >> }
SlippagePatterns ==
    { << "s", "l", "i", "p", "p", "a", "g", "e" >>,
      << "p", "r", "i", "c", "e", " ", "i", "m", "p", "a", "c", "t" >> }
ValidationPatterns ==
    { << "v", "a", "l", "i", "d", "a", "t", "i", "o", "n", "e", "r", "r", "o",
         "r" >>,
      << "v", "a", "l", "i", "d", "a", "t", "i", "o", "n" >> }

isUserRejection(errorMessage) ==
    IncludesAny(ToLowerCase(errorMessage), RejectionPatterns)

Truncated(errorMessage) ==
    IF Len(errorMessage) > 100
    THEN SubSeq(errorMessage, 1, 100) \o << ".", ".", "." >>
    ELSE errorMessage

Classified(errorMessage, lowerMessage) ==
    IF IncludesAny(lowerMessage, QuoteExpiredPatterns) THEN FriendlyQuoteExpired
    ELSE IF IncludesAny(lowerMessage, InsufficientPatterns) THEN FriendlyInsufficient
    ELSE IF IncludesAny(lowerMessage, NetworkPatterns) THEN FriendlyNetwork
    ELSE IF IncludesAny(lowerMessage, SlippagePatterns) THEN FriendlySlippage
    ELSE IF IncludesAny(lowerMessage, ValidationPatterns) THEN FriendlyValidation
    ELSE Truncated(errorMessage)

\* A classifier that hands the raw message on.
getDepositErrorMessageRaw(errorMessage) == errorMessage

getDepositErrorMessage(errorMessage) ==
    IF isUserRejection(errorMessage) THEN FriendlyCancelled
    ELSE Classified(errorMessage, ToLowerCase(errorMessage))

\* A thrown value: an Error with a message, or something that is not an Error.
ErrorOf(message) == [isError |-> TRUE, message |-> message]
NonError == [isError |-> FALSE, message |-> << >>]

\* error instanceof Error ? error.message : fallback
MessageOf(thrown, fallback) == IF thrown.isError THEN thrown.message ELSE fallback

\* What executeRoute may throw, and what the wallet and the USDC contract may
\* throw during the settlement.
ExecuteThrows ==
    { ErrorOf(MsgUserRejected), ErrorOf(MsgActionRejected),
      ErrorOf(MsgInsufficientFunds), ErrorOf(MsgReverted), ErrorOf(MsgLongRevert),
      NonError }
DepositThrows ==
    { ErrorOf(MsgUserRejected), ErrorOf(MsgReverted), ErrorOf(MsgNoWallet), NonError }

----------------------------------------------------------------------------
(* DepositModal.handleExecute and executeHyperLiquidDeposit.  One action   *)
(* per user click and per collaborator call that resolves or rejects; an   *)
(* action runs the handler up to its next await.                           *)

\* The assets of the execution runs: raw on-chain amount, price, and the quote
\* profile the quote service answers with.
ExecHoldings ==
    << [chainId |-> 137, address |-> "0xc2132d05d31c914a87c6611c10748aeb04b58e8f",
        symbol |-> SymUSDT, decimals |-> 6, raw |-> 6000000, price |-> ROne,
        profile |-> [eff |-> Rat(49, 50), duration |-> 45]],
       [chainId |-> 137, address |-> ZERO_ADDRESS,
        symbol |-> SymPOL, decimals |-> NativeDecimals,
        raw |-> 200000 * Pow10(NativeDecimals - 4), price |-> Rat(1, 2),
        profile |-> [eff |-> Rat(1, 2), duration |-> 30]],
       [chainId |-> 1, address |-> "0xa0b86991c6218b36c1d19d4a2e9eb0ce3606eb48",
        symbol |-> SymUSDC, decimals |-> 6, raw |-> 12050000, price |-> ROne,
        profile |-> [eff |-> Rat(49, 50), duration |-> 45]],
       [chainId |-> 100, address |-> ZERO_ADDRESS,
        symbol |-> SymXDAI, decimals |-> NativeDecimals,
        raw |-> 84000 * Pow10(NativeDecimals - 4), price |-> ROne,
        profile |-> [eff |-> Rat(101, 100), duration |-> 60]] >>

ExecHeld(k) == 1..Min(k, Len(ExecHoldings))

ExecWallet(k) ==
    [slot \in Slots |->
        IF \E i \in ExecHeld(k) :
              slot = <<ExecHoldings[i].chainId, ExecHoldings[i].address>>
        THEN ExecHoldings[CHOOSE i \in ExecHeld(k) :
                 slot = <<ExecHoldings[i].chainId, ExecHoldings[i].address>>].raw
        ELSE 0]

ExecBalanceOf(h, balanceNum) ==
    TokenBalance(h.chainId, h.address, h.symbol, h.decimals, balanceNum,
                 RMul(balanceNum, h.price))

ExecOptionOf(h, balance) ==
    BridgeOption(balance, QuoteFor(balance, AmountInSmallestUnit(balance), h.profile))

\* The scanned balances and the quoted options of such a wallet, both in the
\* order of the scan's sort.
ExecEntries(k) ==
    SortBy("usd",
        [i \in ExecHeld(k) |->
            [holding |-> ExecHoldings[i],
             balanceUSD |-> RMul(FormattedBalance(ExecHoldings[i].raw,
                                                  ExecHoldings[i].decimals),
                                 ExecHoldings[i].price)]])
ExecBalances(k) ==
    [i \in ExecHeld(k) |->
        ExecBalanceOf(ExecEntries(k)[i].holding,
            FormattedBalance(ExecEntries(k)[i].holding.raw,
                             ExecEntries(k)[i].holding.decimals))]
ExecOptions(k) ==
    [i \in ExecHeld(k) |-> ExecOptionOf(ExecEntries(k)[i].holding, ExecBalances(k)[i])]

\* The amounts the user may type.
ExecAmounts == {RInt(5), Rat(12005, 1000), RInt(25)}

\* The raw USDC amounts the wallet may hold on Arbitrum at settlement.
ArbitrumBalances == {0, 3000000, 10130000, 30000000}

\* overallStatus of the progress notifications of a route update.
HookStatuses == {"approving", "pending", "completed", "failed"}

PendingExecution == [status |-> "pending", progress |-> "none", error |-> << >>]

StrategyNamed(name) ==
    IF name = "fastest" THEN depositPlan.fastest
    ELSE IF name = "cheapest" THEN depositPlan.cheapest
    ELSE Null

\* The strategy handleExecute picks when none is selected and both exist.
AutoPick(fastest, cheapest) ==
    IF \/ Dominates(cheapest, fastest) /\ ~Dominates(fastest, cheapest)
       \/ /\ cheapest.totalTimeSeconds < fastest.totalTimeSeconds
          /\ RLe(cheapest.totalFeesUSD, fastest.totalFeesUSD)
    THEN "cheapest"
    ELSE IF \/ Dominates(fastest, cheapest) /\ ~Dominates(cheapest, fastest)
            \/ /\ fastest.totalTimeSeconds < cheapest.totalTimeSeconds
               /\ RLe(fastest.totalFeesUSD, cheapest.totalFeesUSD)
    THEN "fastest"
    ELSE "none"

StrategyToUse(selected, fastest, cheapest) ==
    IF selected # "none" THEN selected
    ELSE IF fastest # Null /\ cheapest # Null THEN AutoPick(fastest, cheapest)
    ELSE IF fastest # Null THEN "fastest"
    ELSE IF cheapest # Null THEN "cheapest"
    ELSE "none"

Call(op, leg, amountRaw) == [op |-> op, leg |-> leg, amount |-> amountRaw]

\* The leg's bridge of the strategy being executed.
BridgeOf(name, i) == StrategyNamed(name).bridges[i]

\* The quote kept in the BridgeOption since the planning.
StoredQuoteOf(bridge) == bridge.quote

\* The quote service's answer to the fresh request for a leg.
FreshQuoteFor(bridge) ==
    [fromAmount |-> bridge.usedInputAmount,
     toAmount |-> RFloor(RMul(bridge.usedOutputUSD, RInt(Pow10(6)))),
     executionDuration |-> bridge.estimatedTimeSeconds]

\* Top of the loop body for leg i: the leg is marked executing and the fresh
\* quote for its usedInputAmount is requested.
BeginLeg(name, i, execs, log) ==
    /\ currentExecutionIndex' = i
    /\ executions' = [execs EXCEPT ![i].status = "executing"]
    /\ calls' = Append(log, Call("quote", i, BridgeOf(name, i).usedInputAmount))
    /\ pc' = "quote"
    /\ step' = "executing"
    /\ UNCHANGED <<overallComplete, hyperLiquidDeposit>>

\* A variant that always goes on to the settlement.
AfterLoopAlwaysSettles(execs, log, count) ==
    /\ executions' = execs
    /\ step' = "depositing"
    /\ calls' = Append(log, Call("deposit", 0, 0))
    /\ pc' = "balance"
    /\ UNCHANGED <<currentExecutionIndex, overallComplete, hyperLiquidDeposit>>

\* A variant without the else branch: with no successful leg the modal is
\* left on the executing step.
AfterLoopNoElse(execs, log, count) ==
    /\ executions' = execs
    /\ UNCHANGED <<currentExecutionIndex, hyperLiquidDeposit>>
    /\ IF count > 0
       THEN /\ step' = "depositing"
            /\ calls' = Append(log, Call("deposit", 0, 0))
            /\ pc' = "balance"
            /\ UNCHANGED overallComplete
       ELSE /\ calls' = log
            /\ pc' = "done"
            /\ UNCHANGED <<overallComplete, step>>

\* After the loop: the settlement if a leg succeeded, else the run is over.
AfterLoop(execs, log, count) ==
    /\ executions' = execs
    /\ UNCHANGED <<currentExecutionIndex, hyperLiquidDeposit>>
    /\ IF count > 0
       THEN /\ step' = "depositing"
            /\ calls' = Append(log, Call("deposit", 0, 0))
            /\ pc' = "balance"
            /\ UNCHANGED overallComplete
       ELSE /\ overallComplete' = TRUE
            /\ step' = "complete"
            /\ calls' = log
            /\ pc' = "done"

\* A continuation that starts the next leg from the records as they were
\* before leg i reached its terminal state.
NextLegFromStale(name, i, execs, log, count) ==
    IF i < Len(execs) THEN BeginLeg(name, i + 1, executions, log)
    ELSE AfterLoop(execs, log, count)

\* The end of an iteration that does not break.
NextLeg(name, i, execs, log, count) ==
    IF i < Len(execs) THEN BeginLeg(name, i + 1, execs, log)
    ELSE AfterLoop(execs, log, count)

Failed(execs, i, errorMessage) ==
    [execs EXCEPT ![i].status = "failed",
                  ![i].error = getDepositErrorMessage(errorMessage)]

\* A catch block that never breaks out of the loop.
FailLegNeverStops(i, execs, errorMessage) ==
    /\ errorLog' = Append(errorLog, [leg |-> i, errorMessage |-> errorMessage])
    /\ userRejected' = isUserRejection(errorMessage)
    /\ NextLeg(strategyToUse, i, Failed(execs, i, errorMessage), calls,
               successfulBridgeCount)

\* The catch block of the loop body.
FailLeg(i, execs, errorMessage) ==
    /\ errorLog' = Append(errorLog, [leg |-> i, errorMessage |-> errorMessage])
    /\ IF isUserRejection(errorMessage)
       THEN /\ userRejected' = TRUE
            /\ AfterLoop(Failed(execs, i, errorMessage), calls, successfulBridgeCount)
       ELSE /\ userRejected' = userRejected
            /\ NextLeg(strategyToUse, i, Failed(execs, i, errorMessage), calls,
                       successfulBridgeCount)

\* handleExecute up to its first await, for the strategy it resolved.
StartRun(name) ==
    IF name = "none" \/ StrategyNamed(name) = Null
    THEN UNCHANGED <<step, executions, currentExecutionIndex, overallComplete,
                     hyperLiquidDeposit, pc, strategyToUse, successfulBridgeCount,
                     userRejected, calls>>
    ELSE /\ strategyToUse' = name
         /\ successfulBridgeCount' = 0
         /\ userRejected' = FALSE
         /\ BeginLeg(name, 1,
                [i \in DOMAIN StrategyNamed(name).bridges |-> PendingExecution],
                calls)

\* The user clicks a strategy card that is shown.
SelectCard ==
    /\ step = "select" /\ pc = "idle"
    /\ \E type \in {"fastest", "cheapest"} :
         /\ IF type = "fastest"
            THEN Cards(depositPlan.fastest, depositPlan.cheapest).showFastest
            ELSE Cards(depositPlan.fastest, depositPlan.cheapest).showCheapest
         /\ selectedStrategy # type
         /\ selectedStrategy' = type
    /\ UNCHANGED <<planVars, progVars, amount, step, executions, currentExecutionIndex,
                   overallComplete, hyperLiquidDeposit, pc, strategyToUse,
                   successfulBridgeCount, userRejected, freshQuote, calls,
                   errorLog, hookCalls>>

ExecuteClicked(singleBestStrategy) ==
    /\ singleBestStrategy # "none" \/ selectedStrategy # "none"
    /\ selectedStrategy' = IF singleBestStrategy # "none" /\ selectedStrategy = "none"
                           THEN singleBestStrategy ELSE selectedStrategy
    /\ StartRun(StrategyToUse(selectedStrategy, depositPlan.fastest,
                              depositPlan.cheapest))

\* The user clicks the execute button of the selection step: the click handler
\* and handleExecute, which reads the selectedStrategy of the last render.
ClickExecute ==
    /\ step = "select" /\ pc = "idle"
    /\ ~depositPlan.insufficientFunds
    /\ depositPlan.fastest # Null \/ depositPlan.cheapest # Null
    /\ ExecuteClicked(Cards(depositPlan.fastest, depositPlan.cheapest).singleBestStrategy)
    /\ UNCHANGED <<planVars, progVars, amount, freshQuote, errorLog, hookCalls>>

\* A callback that also copies a final overallStatus into the leg's status.
WithProgressAndStatus(execs, i, overallStatus) ==
    [execs EXCEPT ![i].progress = overallStatus,
                  ![i].status = IF overallStatus \in {"completed", "failed"}
                                THEN overallStatus ELSE @]

\* The progress callback handleExecute passes: { ...exec, progress }.
WithProgress(execs, i, overallStatus) == [execs EXCEPT ![i].progress = overallStatus]

\* getBridgeRouteWithTokens resolves: executeBridgeWithDetailedProgress is
\* called with the fresh quote and sends its initial notification.
QuoteResolves ==
    /\ pc = "quote"
    /\ freshQuote' = FreshQuoteFor(BridgeOf(strategyToUse, currentExecutionIndex))
    /\ calls' = Append(calls, Call("execute", currentExecutionIndex,
                    FreshQuoteFor(BridgeOf(strategyToUse, currentExecutionIndex)).fromAmount))
    /\ executions' = WithProgress(executions, currentExecutionIndex, "approving")
    /\ pc' = "execute"
    /\ UNCHANGED <<planVars, progVars, amount, selectedStrategy, step, currentExecutionIndex,
                   overallComplete, hyperLiquidDeposit, strategyToUse,
                   successfulBridgeCount, userRejected, errorLog, hookCalls>>

\* getBridgeRouteWithTokens rejects: always with its own message.
QuoteRejects ==
    /\ pc = "quote"
    /\ FailLeg(currentExecutionIndex, executions, MsgQuoteFailed)
    /\ UNCHANGED <<planVars, progVars, amount, selectedStrategy, strategyToUse,
                   successfulBridgeCount, freshQuote, hookCalls>>

ExecuteIssued(leg) == \E c \in DOMAIN calls : calls[c].op = "execute" /\ calls[c].leg = leg

\* The SDK invokes the updateRouteHook of a leg whose execute call was issued;
\* the callback only writes the leg's progress.
RouteUpdate ==
    /\ hookCalls < MaxHookCalls
    /\ \E leg \in DOMAIN executions, overallStatus \in HookStatuses :
         /\ ExecuteIssued(leg)
         /\ executions' = WithProgress(executions, leg, overallStatus)
    /\ hookCalls' = hookCalls + 1
    /\ UNCHANGED <<planVars, progVars, amount, selectedStrategy, step, currentExecutionIndex,
                   overallComplete, hyperLiquidDeposit, pc, strategyToUse,
                   successfulBridgeCount, userRejected, freshQuote, calls, errorLog>>

Completed(execs, i) ==
    [execs EXCEPT ![i].progress = "completed", ![i].status = "completed"]

\* executeRoute resolves: the final notification, then the leg is completed.
ExecuteResolves ==
    /\ pc = "execute"
    /\ successfulBridgeCount' = successfulBridgeCount + 1
    /\ NextLeg(strategyToUse, currentExecutionIndex,
               Completed(executions, currentExecutionIndex), calls,
               successfulBridgeCount + 1)
    /\ UNCHANGED <<planVars, progVars, amount, selectedStrategy, strategyToUse, userRejected,
                   freshQuote, errorLog, hookCalls>>

\* executeRoute rejects: the failed notification, then the error is rethrown
\* into the catch block.
ExecuteRejects ==
    /\ pc = "execute"
    /\ \E thrown \in ExecuteThrows :
         FailLeg(currentExecutionIndex,
                 WithProgress(executions, currentExecutionIndex, "failed"),
                 MessageOf(thrown, MsgBridgeFailed))
    /\ UNCHANGED <<planVars, progVars, amount, selectedStrategy, strategyToUse,
                   successfulBridgeCount, freshQuote, hookCalls>>

RunComplete ==
    /\ overallComplete' = TRUE
    /\ step' = "complete"
    /\ pc' = "done"

\* A settlement that submits the transfer whatever the amount.
DepositOfNoMinimum(depositAmount, log) ==
    /\ hyperLiquidDeposit' = [status |-> "executing", amountUSDC |-> depositAmount,
                              error |-> << >>]
    /\ calls' = Append(log,
           Call("transfer", 0, RFloor(RMul(depositAmount, RInt(Pow10(6))))))
    /\ pc' = "transfer"
    /\ UNCHANGED <<overallComplete, step>>

\* executeHyperLiquidDeposit from the amount on: below the minimum the
\* settlement fails, else the transfer is submitted.
DepositOf(depositAmount, log) ==
    IF RLt(depositAmount, RInt(MIN_HYPERLIQUID_DEPOSIT_USD))
    THEN /\ hyperLiquidDeposit' = [status |-> "failed", amountUSDC |-> depositAmount,
                                   error |-> MinimumDepositError(depositAmount)]
         /\ calls' = log
         /\ RunComplete
    ELSE /\ hyperLiquidDeposit' = [status |-> "executing", amountUSDC |-> depositAmount,
                                   error |-> << >>]
         /\ calls' = Append(log,
                Call("transfer", 0, RFloor(RMul(depositAmount, RInt(Pow10(6))))))
         /\ pc' = "transfer"
         /\ UNCHANGED <<overallComplete, step>>

RMin(a, b) == IF RLe(a, b) THEN a ELSE b

\* balanceOf resolves with `raw` units (logged as the call's amount): the
\* amount to deposit is min(requested, balance).
DepositBalanceRead ==
    /\ pc = "balance"
    /\ \E raw \in ArbitrumBalances :
         DepositOf(RMin(amount, Rat(raw, Pow10(6))),
                   Append(calls, Call("balanceOf", 0, raw)))
    /\ UNCHANGED <<planVars, progVars, amount, selectedStrategy, executions,
                   currentExecutionIndex, strategyToUse, successfulBridgeCount,
                   userRejected, freshQuote, errorLog, hookCalls>>

\* The transfer is confirmed.
TransferConfirms ==
    /\ pc = "transfer"
    /\ hyperLiquidDeposit' = [hyperLiquidDeposit EXCEPT !.status = "completed"]
    /\ RunComplete
    /\ UNCHANGED <<planVars, progVars, amount, selectedStrategy, executions,
                   currentExecutionIndex, strategyToUse, successfulBridgeCount,
                   userRejected, freshQuote, calls, errorLog, hookCalls>>

DepositFailure(errorMessage) ==
    [status |-> "failed",
     amountUSDC |-> IF hyperLiquidDeposit = Null THEN RZero
                    ELSE hyperLiquidDeposit.amountUSDC,
     error |-> IF isUserRejection(errorMessage) THEN DepositCancelled ELSE errorMessage]

\* A call of the settlement rejects: the catch block of executeHyperLiquidDeposit.
DepositRejects ==
    /\ pc \in {"balance", "transfer"}
    /\ \E thrown \in DepositThrows :
         hyperLiquidDeposit' = DepositFailure(MessageOf(thrown, MsgDepositFailed))
    /\ RunComplete
    /\ UNCHANGED <<planVars, progVars, amount, selectedStrategy, executions,
                   currentExecutionIndex, strategyToUse, successfulBridgeCount,
                   userRejected, freshQuote, calls, errorLog, hookCalls>>

\* renderExecutingStep.getHeaderText
getHeaderText ==
    IF step = "depositing" THEN "Depositing to HyperLiquid..."
    ELSE IF ~overallComplete THEN "Bridging to Arbitrum..."
    ELSE IF hyperLiquidDeposit # Null /\ hyperLiquidDeposit.status = "completed"
    THEN "Deposit Complete!"
    ELSE IF hyperLiquidDeposit # Null /\ hyperLiquidDeposit.status = "failed"
    THEN "Deposit Failed"
    ELSE IF \E i \in DOMAIN executions : executions[i].status = "failed"
    THEN (IF \E i \in DOMAIN executions : executions[i].status = "completed"
          THEN "Partially Complete" ELSE "Bridges Failed")
    ELSE "Deposit Complete!"

\* "Transferring USDC to HyperLiquid trading account"
SubTextDepositing ==
    << "T", "r", "a", "n", "s", "f", "e", "r", "r", "i", "n", "g", " ",
       "U", "S", "D", "C", " ", "t", "o", " ", "H", "y", "p", "e", "r",
       "L", "i", "q", "u", "i", "d", " ", "t", "r", "a", "d", "i", "n",
       "g", " ", "a", "c", "c", "o", "u", "n", "t" >>
\* " USDC deposited to HyperLiquid"
SubTextDeposited ==
    << " ", "U", "S", "D", "C", " ", "d", "e", "p", "o", "s", "i", "t",
       "e", "d", " ", "t", "o", " ", "H", "y", "p", "e", "r", "L", "i",
       "q", "u", "i", "d" >>
\* "Failed to deposit to HyperLiquid"
SubTextDepositFailed ==
    << "F", "a", "i", "l", "e", "d", " ", "t", "o", " ", "d", "e", "p",
       "o", "s", "i", "t", " ", "t", "o", " ", "H", "y", "p", "e", "r",
       "L", "i", "q", "u", "i", "d" >>
\* " bridges succeeded"
SubTextSucceeded ==
    << " ", "b", "r", "i", "d", "g", "e", "s", " ", "s", "u", "c", "c",
       "e", "e", "d", "e", "d" >>
\* "Your assets have been deposited to HyperLiquid"
SubTextAllDeposited ==
    << "Y", "o", "u", "r", " ", "a", "s", "s", "e", "t", "s", " ", "h",
       "a", "v", "e", " ", "b", "e", "e", "n", " ", "d", "e", "p", "o",
       "s", "i", "t", "e", "d", " ", "t", "o", " ", "H", "y", "p", "e",
       "r", "L", "i", "q", "u", "i", "d" >>

CompletedCount(execs) ==
    Cardinality({i \in DOMAIN execs : execs[i].status = "completed"})

\* `${completed} of ${executions.length} bridges succeeded`
SubTextCount(completed, total) ==
    DecimalDigits(completed) \o << " ", "o", "f", " " >> \o DecimalDigits(total)
      \o SubTextSucceeded

\* `Bridge ${currentExecutionIndex + 1} of ${executions.length}`; the model's
\* currentExecutionIndex is 1-based.
SubTextBridge(index, total) ==
    << "B", "r", "i", "d", "g", "e", " " >> \o DecimalDigits(index)
      \o << " ", "o", "f", " " >> \o DecimalDigits(total)

\* renderExecutingStep.getSubText
getSubText ==
    IF step = "depositing" THEN SubTextDepositing
    ELSE IF ~overallComplete
    THEN SubTextBridge(currentExecutionIndex, Len(executions))
    ELSE IF hyperLiquidDeposit # Null /\ hyperLiquidDeposit.status = "completed"
    THEN << "$" >> \o ToFixed2Text(hyperLiquidDeposit.amountUSDC) \o SubTextDeposited
    ELSE IF hyperLiquidDeposit # Null /\ hyperLiquidDeposit.status = "failed"
    THEN (IF hyperLiquidDeposit.error # << >> THEN hyperLiquidDeposit.error
          ELSE SubTextDepositFailed)
    ELSE IF \E i \in DOMAIN executions : executions[i].status = "failed"
    THEN SubTextCount(CompletedCount(executions), Len(executions))
    ELSE SubTextAllDeposited

----------------------------------------------------------------------------
(* LiFiBridgeService.executeBridgeWithDetailedProgress: the StepInfo array *)
(* it keeps, the route updates of executeRoute and the notifications sent  *)
(* to onDetailedProgress.  Every action is one route update of the         *)
(* collaborator with the hook call it causes, or the end of executeRoute.  *)

WaitingStep == [status |-> "waiting", progress |-> 0]
DoneStep == [status |-> "done", progress |-> 100]

\* allSteps: the includedSteps of the quote, or the quote itself.
AllSteps(includedSteps) == IF includedSteps > 0 THEN includedSteps ELSE 1

\* status and progress of a UI step whose process has the given status.
StepOfProcess(processStatus) ==
    CASE processStatus = "DONE" -> DoneStep
      [] processStatus = "PENDING" -> [status |-> "pending", progress |-> 50]
      [] processStatus = "ACTION_REQUIRED" -> [status |-> "action_required", progress |-> 25]
      [] processStatus = "STARTED" -> [status |-> "pending", progress |-> 25]
      [] OTHER -> WaitingStep

\* processIndex of UI step idx (0-based): floor((idx / numUISteps) * totalProcesses)
ProcessIndex(idx, numUISteps, totalProcesses) == (idx * totalProcesses) \div numUISteps

\* The StepInfo the hook computes for UI step idx (0-based) of numUISteps.
StepInfoOf(updatedRoute, idx, numUISteps) ==
    IF updatedRoute.status = "DONE" THEN DoneStep
    ELSE IF ProcessIndex(idx, numUISteps,
                IF Len(updatedRoute.process) > 1 THEN Len(updatedRoute.process) ELSE 1) + 1
              \in DOMAIN updatedRoute.process
    THEN StepOfProcess(updatedRoute.process[
             ProcessIndex(idx, numUISteps,
                 IF Len(updatedRoute.process) > 1 THEN Len(updatedRoute.process) ELSE 1) + 1])
    ELSE WaitingStep

\* overallStatus of the hook: from the latest process.
OverallStatusOf(updatedRoute) ==
    IF updatedRoute.process = << >> THEN "pending"
    ELSE CASE updatedRoute.process[Len(updatedRoute.process)] = "ACTION_REQUIRED" -> "approving"
           [] updatedRoute.process[Len(updatedRoute.process)] \in {"PENDING", "STARTED"} -> "pending"
           [] updatedRoute.process[Len(updatedRoute.process)] = "DONE" ->
                IF updatedRoute.status = "DONE" THEN "completed" ELSE "pending"
           [] updatedRoute.process[Len(updatedRoute.process)] = "FAILED" -> "failed"
           [] OTHER -> "pending"

Notify(overallStatus, steps) ==
    notifications' = Append(notifications, [overallStatus |-> overallStatus, steps |-> steps])

StoreAndNotify(overallStatus, steps) ==
    /\ stepsInfo' = steps
    /\ Notify(overallStatus, steps)

\* updateRouteHook(updatedRoute): every StepInfo is computed anew from the
\* processes, then the notification is sent.
updateRouteHook(updatedRoute) ==
    /\ route' = updatedRoute
    /\ StoreAndNotify(OverallStatusOf(updatedRoute),
           [k \in DOMAIN stepsInfo |-> StepInfoOf(updatedRoute, k - 1, Len(stepsInfo))])

\* The call: the StepInfo array is built and the initial state is sent.
BridgeStart ==
    /\ bridgePc = "idle"
    /\ \E includedSteps \in 0..MaxIncludedSteps :
         StoreAndNotify("approving", [k \in 1..AllSteps(includedSteps) |-> WaitingStep])
    /\ bridgePc' = "executing"
    /\ UNCHANGED <<route, planVars, execVars>>

\* The route starts its next process.
ProcessAdded ==
    /\ bridgePc = "executing"
    /\ route.status = "PENDING"
    /\ Len(route.process) < MaxProcesses
    /\ IF route.process = << >> THEN TRUE
       ELSE route.process[Len(route.process)] = "DONE"
    /\ updateRouteHook([route EXCEPT !.process = Append(@, "STARTED")])
    /\ UNCHANGED <<bridgePc, planVars, execVars>>

\* The statuses the latest process may take next.
NextProcessStatus(processStatus) ==
    CASE processStatus = "STARTED" -> {"ACTION_REQUIRED", "PENDING"}
      [] processStatus = "ACTION_REQUIRED" -> {"PENDING"}
      [] processStatus = "PENDING" -> {"DONE"}
      [] OTHER -> {}

\* The latest process moves on.
ProcessMoves ==
    /\ bridgePc = "executing"
    /\ route.status = "PENDING"
    /\ route.process # << >>
    /\ \E s \in NextProcessStatus(route.process[Len(route.process)]) :
         updateRouteHook([route EXCEPT !.process[Len(route.process)] = s])
    /\ UNCHANGED <<bridgePc, planVars, execVars>>

\* The last process is done and the execution of the main step is DONE.
ExecutionDone ==
    /\ bridgePc = "executing"
    /\ route.status = "PENDING"
    /\ route.process # << >>
    /\ route.process[Len(route.process)] = "DONE"
    /\ updateRouteHook([route EXCEPT !.status = "DONE"])
    /\ UNCHANGED <<bridgePc, planVars, execVars>>

\* The latest process fails.
ProcessFails ==
    /\ bridgePc = "executing"
    /\ route.status = "PENDING"
    /\ route.process # << >>
    /\ route.process[Len(route.process)] # "DONE"
    /\ updateRouteHook([route EXCEPT !.process[Len(route.process)] = "FAILED",
                                     !.status = "FAILED"])
    /\ UNCHANGED <<bridgePc, planVars, execVars>>

\* executeRoute resolves: all steps are marked done, the completion is sent.
ExecuteRouteResolves ==
    /\ bridgePc = "executing"
    /\ route.status = "DONE"
    /\ StoreAndNotify("completed", [k \in DOMAIN stepsInfo |-> DoneStep])
    /\ bridgePc' = "resolved"
    /\ UNCHANGED <<route, planVars, execVars>>

\* The catch block: the first pending or action_required step is marked failed.
MarkFailed(steps) ==
    IF \E k \in DOMAIN steps : steps[k].status \in {"pending", "action_required"}
    THEN [steps EXCEPT ![CHOOSE k \in DOMAIN steps :
                           /\ steps[k].status \in {"pending", "action_required"}
                           /\ \A j \in 1..(k - 1) :
                                steps[j].status \notin {"pending", "action_required"}]
                          = [status |-> "failed", progress |-> 0]]
    ELSE steps

\* executeRoute rejects: after a failed process, or on a rejection in the
\* wallet before the route was updated.
ExecuteRouteThrows ==
    /\ bridgePc = "executing"
    /\ route.status # "DONE"
    /\ StoreAndNotify("failed", MarkFailed(stepsInfo))
    /\ bridgePc' = "thrown"
    /\ UNCHANGED <<route, planVars, execVars>>

\* Before the call.
BridgeIdle ==
    /\ route = [process |-> << >>, status |-> "PENDING"]
    /\ stepsInfo = << >>
    /\ notifications = << >>
    /\ bridgePc = "idle"

----------------------------------------------------------------------------
(* The specifications.                                                     *)

\* The modal before any run.
ExecIdle ==
    /\ selectedStrategy = "none"
    /\ step = "select"
    /\ executions = << >>
    /\ currentExecutionIndex = 0
    /\ overallComplete = FALSE
    /\ hyperLiquidDeposit = Null
    /\ pc = "idle"
    /\ strategyToUse = "none"
    /\ successfulBridgeCount = 0
    /\ userRejected = FALSE
    /\ freshQuote = Null
    /\ calls = << >>
    /\ errorLog = << >>
    /\ hookCalls = 0

\* The planner: one calculateDepositPlan call.
Init == PlanInit /\ amount = targetAmount /\ ExecIdle /\ BridgeIdle

Next == ScanChain \/ QuoteBalance

Spec == Init /\ [][Next]_vars

\* The selection step showing the plan calculateDepositPlan returned for a
\* wallet holding the first k assets of ExecHoldings.
PlannedFor(k) ==
    /\ wallet = ExecWallet(k)
    /\ phase = "select"
    /\ chainIdx = Len(Chains) + 1
    /\ allBalances = ExecBalances(k)
    /\ quoteIdx = Len(ExecBalances(k)) + 1
    /\ quoteLog = [i \in DOMAIN ExecBalances(k) |->
                     [chainId |-> ExecBalances(k)[i].chainId,
                      tokenAddress |-> ExecBalances(k)[i].tokenAddress,
                      fromAmount |-> AmountInSmallestUnit(ExecBalances(k)[i])]]
    /\ faults = 0
    /\ scanFaults = {}
    /\ IF RLt(SumUSD(ExecBalances(k)), targetAmount)
       THEN /\ options = << >>
            /\ depositPlan = InsufficientPlan(SumUSD(ExecBalances(k)))
       ELSE /\ options = ExecOptions(k)
            /\ depositPlan = QuotedPlan(SumUSD(ExecBalances(k)), ExecOptions(k))

InitExec ==
    /\ amount \in ExecAmounts
    /\ targetAmount = FloorTo(amount, 100)
    /\ \E k \in 1..MaxLegs : PlannedFor(k)
    /\ ExecIdle
    /\ BridgeIdle

NextExec ==
    \/ SelectCard
    \/ ClickExecute
    \/ QuoteResolves
    \/ QuoteRejects
    \/ RouteUpdate
    \/ ExecuteResolves
    \/ ExecuteRejects
    \/ DepositBalanceRead
    \/ TransferConfirms
    \/ DepositRejects

SpecExec == InitExec /\ [][NextExec]_vars

\* Every awaited collaborator call is eventually answered: the fresh quote
\* request and executeBridgeWithDetailedProgress of a leg, and the awaited
\* calls of executeHyperLiquidDeposit, each resolve or reject.  The user's
\* clicks and the SDK's route updates are under no obligation.
CollaboratorsAnswer ==
    /\ WF_vars(QuoteResolves \/ QuoteRejects)
    /\ WF_vars(ExecuteResolves \/ ExecuteRejects)
    /\ WF_vars(TransferConfirms \/ DepositRejects \/ DepositBalanceRead)

SpecExecFair == InitExec /\ [][NextExec]_vars /\ CollaboratorsAnswer

\* getBridgeQuotes called with a balance list of the caller's own; every
\* quote request is answered.
InitQuotes ==
    /\ wallet = [s \in Slots |-> 0]
    /\ targetAmount = RInt(10)
    /\ phase = "quoting"
    /\ chainIdx = Len(Chains) + 1
    /\ allBalances \in BalanceLists
    /\ quoteIdx = 1
    /\ options = << >>
    /\ quoteLog = << >>
    /\ faults = MaxFaults
    /\ scanFaults = {}
    /\ depositPlan = NoPlan
    /\ amount = targetAmount
    /\ ExecIdle
    /\ BridgeIdle

NextQuotes == QuoteBalance

SpecQuotes == InitQuotes /\ [][NextQuotes]_vars

\* One executeBridgeWithDetailedProgress call.
InitProgress ==
    /\ wallet = [s \in Slots |-> 0]
    /\ targetAmount = RInt(10)
    /\ phase = "scanning"
    /\ chainIdx = 1
    /\ allBalances = << >>
    /\ quoteIdx = 1
    /\ options = << >>
    /\ quoteLog = << >>
    /\ faults = 0
    /\ scanFaults = {}
    /\ depositPlan = NoPlan
    /\ amount = targetAmount
    /\ ExecIdle
    /\ BridgeIdle

NextProgress ==
    \/ BridgeStart
    \/ ProcessAdded
    \/ ProcessMoves
    \/ ExecutionDone
    \/ ProcessFails
    \/ ExecuteRouteResolves
    \/ ExecuteRouteThrows

SpecProgress == InitProgress /\ [][NextProgress]_vars

----------------------------------------------------------------------------
(* Helpers of the properties.                                              *)

PlanReturned == phase = "select"

\* The non-null strategies of the returned plan.
ReturnedStrategies ==
    IF PlanReturned
    THEN {st \in {depositPlan.fastest, depositPlan.cheapest} : st # Null}
    ELSE {}

BothStrategies ==
    PlanReturned /\ depositPlan.fastest # Null /\ depositPlan.cheapest # Null

SlotOf(balance) == <<balance.chainId, balance.tokenAddress>>

\* usedInputAmount converted back to token units.
UsedTokens(bridge) == Rat(bridge.usedInputAmount, Pow10(bridge.from.tokenDecimals))

RECURSIVE OutputBefore(_, _)
\* The running output when leg k of the strategy was considered.
OutputBefore(st, k) ==
    IF k <= 1 THEN RZero
    ELSE RAdd(OutputBefore(st, k - 1), st.bridges[k - 1].usedOutputUSD)

NeedAt(st, k) == RSub(depositPlan.targetAmount, OutputBefore(st, k))

ReachesTolerance(st) ==
    RLe(RMul(depositPlan.targetAmount, Rat(95, 100)), st.totalOutputUSD)

\* Every option from position i of the strategy's order on is the next leg
\* (from leg k) or is passed over at the output reached so far.
RECURSIVE ConsideredAll(_, _, _, _, _)
ConsideredAll(st, sorted, i, k, running) ==
    IF i > Len(sorted) THEN k > Len(st.bridges)
    ELSE IF k <= Len(st.bridges) /\ st.bridges[k].from = sorted[i].from
    THEN ConsideredAll(st, sorted, i + 1, k + 1,
                       RAdd(running, st.bridges[k].usedOutputUSD))
    ELSE /\ Allocate(sorted[i], RSub(depositPlan.targetAmount, running)).skip
         /\ ConsideredAll(st, sorted, i + 1, k, running)

----------------------------------------------------------------------------
(* The claims.                                                             *)

\* C1 (as stated): for every target T <= availableBalanceUSD the returned plan
\* has a non-null fastest or cheapest strategy whose totalOutputUSD is at
\* least 95% of T.
C1_ReachesTarget ==
    (PlanReturned /\ RLe(depositPlan.targetAmount, depositPlan.availableBalanceUSD))
        => \E st \in ReturnedStrategies : ReachesTolerance(st)

\* C1 (amended): for every target T <= availableBalanceUSD the plan has
\* insufficientFunds = false, and a returned strategy whose totalOutputUSD is
\* below 95% of T was built with the options exhausted: every quoted option,
\* taken in the strategy's order, is one of its legs or was passed over.
C1_ReachesTargetOrExhausted ==
    (PlanReturned /\ RLe(depositPlan.targetAmount, depositPlan.availableBalanceUSD))
        => /\ ~depositPlan.insufficientFunds
           /\ \A st \in ReturnedStrategies :
                \/ ReachesTolerance(st)
                \/ ConsideredAll(st, SortBy(st.type, options), 1, 1, RZero)

\* C1 witness: a plan for a covered target with a strategy that stays below
\* 95% of the target, and one with a strategy that reaches it.
C1_Witness ==
    /\ PlanReturned
    /\ RLe(depositPlan.targetAmount, depositPlan.availableBalanceUSD)
    /\ \E st \in ReturnedStrategies : ~ReachesTolerance(st) /\ Len(options) >= 2

\* C2: in every returned strategy each leg's usedInputAmount, in token units,
\* is at most the leg's source balance and, for a native gas asset, at most the
\* balance minus the chain's gas reserve; a native asset whose balance does not
\* exceed the reserve is never a leg.
C2_WithinBalanceAfterReserve ==
    \A st \in ReturnedStrategies : \A k \in DOMAIN st.bridges :
        /\ RLe(UsedTokens(st.bridges[k]), st.bridges[k].from.balance)
        /\ isNativeToken(st.bridges[k].from.tokenAddress, st.bridges[k].from.tokenSymbol)
             => /\ RLe(UsedTokens(st.bridges[k]),
                       RSub(st.bridges[k].from.balance,
                            getGasReserve(st.bridges[k].from.chainId)))
                /\ RLt(getGasReserve(st.bridges[k].from.chainId),
                       st.bridges[k].from.balance)

\* C2 witness: a strategy with a native leg on a chain without a reserve table
\* entry that uses everything left after the 0.6 default reserve.
C2_Witness ==
    \E st \in ReturnedStrategies : \E k \in DOMAIN st.bridges :
        /\ st.bridges[k].from.tokenAddress = ZERO_ADDRESS
        /\ st.bridges[k].from.chainId \notin DOMAIN GAS_RESERVE_BY_CHAIN
        /\ RFloor(RSub(st.bridges[k].from.balance, DEFAULT_GAS_RESERVE))
             = RFloor(UsedTokens(st.bridges[k]))

\* C3 (as stated): the amount of every quote request and the usedInputAmount of
\* every leg are at most the raw on-chain amount the wallet holds of that asset.
C3_NeverAboveOnChain ==
    /\ \A i \in DOMAIN quoteLog :
         quoteLog[i].fromAmount <= wallet[<<quoteLog[i].chainId, quoteLog[i].tokenAddress>>]
    /\ \A st \in ReturnedStrategies : \A k \in DOMAIN st.bridges :
         st.bridges[k].usedInputAmount <= wallet[SlotOf(st.bridges[k].from)]

\* C4: every leg whose symbol isStablecoin classifies as a stablecoin has a
\* usedInputAmount that is an exact multiple of 10^tokenDecimals.
C4_StableWholeUnits ==
    \A st \in ReturnedStrategies : \A k \in DOMAIN st.bridges :
        isStablecoin(st.bridges[k].from.tokenSymbol)
          => st.bridges[k].usedInputAmount % Pow10(st.bridges[k].from.tokenDecimals) = 0

\* C4 witness: a leg of a stablecoin the loop's inline test does not know, from
\* a balance with a fractional part.
C4_Witness ==
    \E st \in ReturnedStrategies : \E k \in DOMAIN st.bridges :
        /\ isStablecoin(st.bridges[k].from.tokenSymbol)
        /\ ~LoopIsStablecoin(st.bridges[k].from.tokenSymbol)
        /\ st.bridges[k].from.balance.d # 1

\* C5 (as stated): a leg whose available output exceeds the remaining need has
\* usedOutputUSD <= that need, and the totalOutputUSD of every returned
\* strategy is <= targetAmount.
C5_NeverOverAllocates ==
    \A st \in ReturnedStrategies :
        /\ RLe(st.totalOutputUSD, depositPlan.targetAmount)
        /\ \A k \in DOMAIN st.bridges :
             RLt(NeedAt(st, k), MaxAvailableOutputUSD(st.bridges[k]))
               => RLe(st.bridges[k].usedOutputUSD, NeedAt(st, k))

\* C5 (amended): only a leg the selection loop treats as a stablecoin (symbol
\* containing USDC, USDT, DAI, BUSD or TUSD) can exceed the remaining need, and
\* it uses at most ceil(need) + 1 whole units; every other leg has
\* usedOutputUSD <= the remaining need, so a strategy without such stablecoin
\* legs has totalOutputUSD <= targetAmount.
C5_OverAllocatesOnlyStableUnits ==
    \A st \in ReturnedStrategies :
        /\ \A k \in DOMAIN st.bridges :
             IF LoopIsStablecoin(st.bridges[k].from.tokenSymbol)
             THEN RLe(UsedTokens(st.bridges[k]), RInt(RCeil(NeedAt(st, k)) + 1))
             ELSE RLe(st.bridges[k].usedOutputUSD, NeedAt(st, k))
        /\ (\A k \in DOMAIN st.bridges :
               ~LoopIsStablecoin(st.bridges[k].from.tokenSymbol))
             => RLe(st.totalOutputUSD, depositPlan.targetAmount)

\* C5 witness: a leg of another asset whose available output exceeds the need
\* and that is allocated in part.
C5_Witness ==
    \E st \in ReturnedStrategies : \E k \in DOMAIN st.bridges :
        /\ ~LoopIsStablecoin(st.bridges[k].from.tokenSymbol)
        /\ RLt(NeedAt(st, k), MaxAvailableOutputUSD(st.bridges[k]))
        /\ RLt(RZero, st.bridges[k].usedOutputUSD)

\* The scenario: the wallet holds 12.05 USDC on Ethereum and nothing else, the
\* scan has reported it, and the target is $10.
OnlyUSDC1205 ==
    /\ \A slot \in Slots :
         wallet[slot] = IF slot = <<1, "0xa0b86991c6218b36c1d19d4a2e9eb0ce3606eb48">>
                        THEN 12050000 ELSE 0
    /\ PlanReturned
    /\ depositPlan.availableBalanceUSD = Rat(1205, 100)
    /\ targetAmount = RInt(10)

\* C6 (as stated): with only 12.05 USDC, found by the scan, and a target of $10 the plan has
\* insufficientFunds = false and every non-null strategy has exactly one leg,
\* of exactly 12 whole USDC (12000000 raw units).
C6_Uses12Units ==
    OnlyUSDC1205
        => /\ ~depositPlan.insufficientFunds
           /\ \A st \in ReturnedStrategies :
                Len(st.bridges) = 1 /\ st.bridges[1].usedInputAmount = 12000000

\* C6 (amended): with only 12.05 USDC, found by the scan, and a target of $10 the plan has
\* insufficientFunds = false and every non-null strategy has exactly one leg,
\* of exactly 11 whole USDC (11000000 raw units: ceil(10) + 1 units).
C6_Uses11Units ==
    OnlyUSDC1205
        => /\ ~depositPlan.insufficientFunds
           /\ \A st \in ReturnedStrategies :
                Len(st.bridges) = 1 /\ st.bridges[1].usedInputAmount = 11000000

\* C6 witness: the scenario's plan with a strategy.
C6_Witness ==
    /\ OnlyUSDC1205
    /\ depositPlan.fastest # Null /\ depositPlan.cheapest # Null

CardCount(c) == (IF c.showFastest THEN 1 ELSE 0) + (IF c.showCheapest THEN 1 ELSE 0)

CheapestAlsoFaster ==
    /\ BothStrategies
    /\ ~strategiesAreIdentical(depositPlan.fastest, depositPlan.cheapest)
    /\ depositPlan.cheapest.totalTimeSeconds < depositPlan.fastest.totalTimeSeconds
    /\ RLe(depositPlan.cheapest.totalFeesUSD, depositPlan.fastest.totalFeesUSD)

\* C8: when the strategies are not identical and the cheapest has a strictly
\* smaller total time and fees <= the fastest's, only the cheapest is shown,
\* whatever its output.
C8_CheapestFasterShownAlone ==
    CheapestAlsoFaster
        => Cards(depositPlan.fastest, depositPlan.cheapest) =
             [showFastest |-> FALSE, showCheapest |-> TRUE,
              singleBestStrategy |-> "cheapest"]

\* C8 witness: the case with the cheapest output below 95% of the fastest's.
C8_Witness ==
    /\ CheapestAlsoFaster
    /\ RLt(depositPlan.cheapest.totalOutputUSD,
           RMul(depositPlan.fastest.totalOutputUSD, Rat(95, 100)))

\* The raw error of leg j, as the catch block logged it, is a user rejection.
RejectedLeg(j) ==
    \E e \in DOMAIN errorLog :
        errorLog[e].leg = j /\ isUserRejection(errorLog[e].errorMessage)

\* Leg k was attempted: its fresh quote was requested.
Attempted(k) == \E c \in DOMAIN calls : calls[c].op = "quote" /\ calls[c].leg = k

\* C9: a failed leg stops the run if and only if its error is classified as a
\* user rejection: after a user-rejected leg every later leg stays pending and
\* is never attempted, and after any other failure, a failed fresh-quote
\* request included, the next leg is attempted.
C9_OnlyRejectionStopsRun ==
    \A j \in DOMAIN executions :
        executions[j].status = "failed"
          => IF RejectedLeg(j)
             THEN \A k \in DOMAIN executions :
                     k > j => executions[k].status = "pending" /\ ~Attempted(k)
             ELSE j < Len(executions)
                     => Attempted(j + 1) /\ executions[j + 1].status # "pending"

\* C9 witness: a three-leg run whose first leg failed on its fresh quote, whose
\* second leg was then rejected by the user, and whose third leg stays pending
\* at the end of the run.
C9_Witness ==
    /\ Len(executions) = 3
    /\ pc = "done"
    /\ executions[1].status = "failed" /\ ~RejectedLeg(1)
    /\ \E e \in DOMAIN errorLog :
         errorLog[e].leg = 1 /\ errorLog[e].errorMessage = MsgQuoteFailed
    /\ executions[2].status = "failed" /\ RejectedLeg(2)
    /\ executions[3].status = "pending"

LoopEnded == pc \in {"balance", "transfer", "done"}

AnyLegCompleted == \E j \in DOMAIN executions : executions[j].status = "completed"

\* executeHyperLiquidDeposit was called.
SettlementStarted == \E c \in DOMAIN calls : calls[c].op = "deposit"

\* C10: the settlement step is executed only after the leg loop, and then if
\* and only if at least one leg completed, also when a later leg was rejected
\* by the user; with zero legs completed the run ends as failed without any
\* settlement attempt.
C10_SettlementIffLegCompleted ==
    /\ ~LoopEnded => ~SettlementStarted
    /\ LoopEnded =>
         /\ SettlementStarted <=> AnyLegCompleted
         /\ ~AnyLegCompleted =>
              /\ step = "complete" /\ overallComplete
              /\ hyperLiquidDeposit = Null
              /\ getHeaderText = "Bridges Failed"
              /\ \A c \in DOMAIN calls : calls[c].op # "transfer"

\* C10 witness: the settlement has started after a run whose first leg
\* completed and whose second leg was rejected by the user.
C10_Witness ==
    /\ Len(executions) >= 2
    /\ executions[1].status = "completed"
    /\ executions[2].status = "failed" /\ RejectedLeg(2)
    /\ SettlementStarted
    /\ step = "depositing"

\* The settlement's balanceOf calls and transfer calls, as positions of the log.
BalanceReads == {c \in DOMAIN calls : calls[c].op = "balanceOf"}
Transfers == {c \in DOMAIN calls : calls[c].op = "transfer"}

\* min(requested amount, USDC balance read on the destination chain)
SettledAmount(b) == RMin(amount, Rat(calls[b].amount, Pow10(6)))

\* C11: the settlement issues at most one transfer per run; the transferred
\* amount is min(requested amount, USDC balance on the destination chain), in
\* raw USDC units, and it is at least the $5 minimum; when the minimum of the
\* two is below $5 no transfer is issued and the run ends failed although a
\* leg completed.
C11_SingleTransferOfMin ==
    /\ Cardinality(Transfers) <= 1
    /\ Cardinality(BalanceReads) <= 1
    /\ \A c \in Transfers :
         \E b \in BalanceReads :
            /\ b < c
            /\ calls[c].amount = RFloor(RMul(SettledAmount(b), RInt(Pow10(6))))
            /\ hyperLiquidDeposit.amountUSDC = SettledAmount(b)
            /\ RLe(RInt(MIN_HYPERLIQUID_DEPOSIT_USD), SettledAmount(b))
    /\ \A b \in BalanceReads :
         RLt(SettledAmount(b), RInt(MIN_HYPERLIQUID_DEPOSIT_USD))
           => /\ Transfers = {}
              /\ pc = "done" /\ step = "complete" /\ overallComplete
              /\ hyperLiquidDeposit.status = "failed"
              /\ hyperLiquidDeposit.amountUSDC = SettledAmount(b)
              /\ getHeaderText = "Deposit Failed"
              /\ AnyLegCompleted

\* C11 witness: $25 were requested, the destination holds 10.13 USDC, and the
\* transfer of 10130000 units was confirmed.
C11_Witness ==
    /\ amount = RInt(25)
    /\ \E b \in BalanceReads : calls[b].amount = 10130000
    /\ \E c \in Transfers : calls[c].amount = 10130000
    /\ hyperLiquidDeposit # Null /\ hyperLiquidDeposit.status = "completed"
    /\ pc = "done"

\* The scenario of C12: a three-leg run whose first leg completed and whose
\* second leg failed with a user rejection, at the end of the run.
RejectedAfterSuccess ==
    /\ Len(executions) = 3
    /\ executions[1].status = "completed"
    /\ executions[2].status = "failed" /\ RejectedLeg(2)
    /\ pc = "done"

ReportedFailed == getHeaderText \in {"Deposit Failed", "Bridges Failed"}

\* The header or the sub text says that only a part of the legs succeeded.
PartialSuccessNote ==
    \/ getHeaderText = "Partially Complete"
    \/ getSubText = SubTextCount(CompletedCount(executions), Len(executions))

SettledBelowMinimum ==
    \E b \in BalanceReads : RLt(SettledAmount(b), RInt(MIN_HYPERLIQUID_DEPOSIT_USD))

\* C12: in a three-leg run where leg 1 completes and leg 2 fails with a user
\* rejection, leg 3 is never attempted; the outcome is reported failed only if
\* the settled value is below the minimum settlement threshold, and otherwise
\* it is reported completed with a partial-success note.
C12_RejectedRunOutcome ==
    RejectedAfterSuccess
      => /\ ~Attempted(3) /\ executions[3].status = "pending"
         /\ ReportedFailed => SettledBelowMinimum
         /\ ~ReportedFailed
              => getHeaderText \in {"Deposit Complete!", "Partially Complete"}
                   /\ PartialSuccessNote

\* C12, the part that holds: leg 3 is never attempted, and a settled value
\* below the minimum is always reported failed.
C12_StopsBeforeThirdLeg ==
    RejectedAfterSuccess
      => /\ ~Attempted(3) /\ executions[3].status = "pending"
         /\ SettledBelowMinimum => ReportedFailed

\* C12 witness: the scenario ends with the transfer confirmed, and the run is
\* reported as "Deposit Complete!" without any note of the partial success.
C12_Witness ==
    /\ RejectedAfterSuccess
    /\ hyperLiquidDeposit # Null /\ hyperLiquidDeposit.status = "completed"
    /\ getHeaderText = "Deposit Complete!"
    /\ ~PartialSuccessNote

Terminal(j) == executions[j].status \in {"completed", "failed"}

LegCalls == {c \in DOMAIN calls : calls[c].op \in {"quote", "execute"}}

\* C13: legs execute strictly one at a time in strategy order: at most one leg
\* is executing, the quote and execute calls are issued in leg order, and a
\* leg's fresh-quote request and execute call are issued only after every
\* earlier leg has reached completed or failed.
C13_LegsStrictlySequential ==
    /\ Cardinality({j \in DOMAIN executions : executions[j].status = "executing"}) <= 1
    /\ \A c \in LegCalls, d \in LegCalls : c < d => calls[c].leg <= calls[d].leg
    /\ \A c \in LegCalls :
         /\ \A j \in 1..(calls[c].leg - 1) : Terminal(j)
         /\ calls[c].op = "execute"
              => \E q \in LegCalls :
                    q < c /\ calls[q].op = "quote" /\ calls[q].leg = calls[c].leg
    /\ \A j \in DOMAIN executions :
         executions[j].status = "executing" => j = currentExecutionIndex

\* C13 witness: the third leg of a run is executing after the first leg
\* failed and the second completed.
C13_Witness ==
    /\ Len(executions) = 3
    /\ executions[1].status = "failed"
    /\ executions[2].status = "completed"
    /\ executions[3].status = "executing"
    /\ pc = "execute"
    /\ ExecuteIssued(3)

\* The status of leg j stays, or moves one step along
\* pending -> executing -> completed | failed.
LegStep(j) ==
    \/ executions'[j].status = executions[j].status
    \/ executions[j].status = "pending" /\ executions'[j].status = "executing"
    \/ executions[j].status = "executing"
         /\ executions'[j].status \in {"completed", "failed"}

\* C14: each leg's status only follows pending -> executing -> completed or
\* failed: the legs of a run stay the same, a leg starts pending (the first
\* one is marked executing by the handler that creates it), never leaves
\* completed or failed, never goes from pending to a terminal state, and a
\* route update changes the progress field only.
C14_LegStatusMachine ==
    [][ /\ executions # << >> => DOMAIN executions' = DOMAIN executions
        /\ \A j \in DOMAIN executions : LegStep(j)
        /\ executions = << >>
             => \A j \in DOMAIN executions' :
                   executions'[j].status = IF j = 1 THEN "executing" ELSE "pending"
        /\ hookCalls' # hookCalls
             => \A j \in DOMAIN executions :
                   /\ executions'[j].status = executions[j].status
                   /\ executions'[j].error = executions[j].error ]_vars

\* C14 witness: a route update reported "completed" for a leg that had failed;
\* the leg shows that progress and is still failed.
C14_Witness ==
    /\ hookCalls = 1
    /\ \E j \in DOMAIN executions :
         executions[j].status = "failed" /\ executions[j].progress = "completed"

QuotesOf(k) == {c \in DOMAIN calls : calls[c].op = "quote" /\ calls[c].leg = k}
ExecutesOf(k) == {c \in DOMAIN calls : calls[c].op = "execute" /\ calls[c].leg = k}

QuoteFailedFor(k) ==
    \E e \in DOMAIN errorLog :
        errorLog[e].leg = k /\ errorLog[e].errorMessage = MsgQuoteFailed

\* C15: for every attempted leg exactly one fresh quote is requested, for the
\* leg's usedInputAmount, before the execution; the execute call is made at
\* most once, after that request, with a quote for usedInputAmount (the fresh
\* one); a leg that was not attempted has no request; and when the fresh-quote
\* request fails, execute is not called for the leg.
C15_FreshQuotePerLeg ==
    \A k \in DOMAIN executions :
        /\ Cardinality(QuotesOf(k)) = IF executions[k].status = "pending" THEN 0 ELSE 1
        /\ \A q \in QuotesOf(k) :
             calls[q].amount = BridgeOf(strategyToUse, k).usedInputAmount
        /\ Cardinality(ExecutesOf(k)) <= 1
        /\ \A c \in ExecutesOf(k) :
             /\ \E q \in QuotesOf(k) : q < c
             /\ calls[c].amount = BridgeOf(strategyToUse, k).usedInputAmount
        /\ QuoteFailedFor(k) => ExecutesOf(k) = {}
        /\ (pc = "execute" /\ k = currentExecutionIndex)
             => /\ ExecutesOf(k) # {}
                /\ freshQuote.fromAmount = BridgeOf(strategyToUse, k).usedInputAmount

\* C15 witness: a leg whose stored quote was for another amount than its
\* usedInputAmount has been executed with a quote for usedInputAmount, and a
\* leg whose fresh-quote request failed has no execute call.
C15_Witness ==
    /\ \E k \in DOMAIN executions :
         /\ ExecutesOf(k) # {}
         /\ BridgeOf(strategyToUse, k).quote.fromAmount
              # BridgeOf(strategyToUse, k).usedInputAmount
    /\ \E k \in DOMAIN executions : QuoteFailedFor(k) /\ ExecutesOf(k) = {}

\* C16: no progress notification is applied to a leg's record after the leg
\* has reached completed or failed, even if the execution collaborator invokes
\* its update hook late: the progress of a terminal leg never changes.
C16_NoProgressAfterTerminal ==
    [][ \A j \in DOMAIN executions :
           (Terminal(j) /\ j \in DOMAIN executions')
             => executions'[j].progress = executions[j].progress ]_vars

\* C16 witness: a leg is completed and its record shows the progress
\* "pending", written by a route update that arrived after the completion.
C16_Witness ==
    \E j \in DOMAIN executions :
        /\ executions[j].status = "completed"
        /\ executions[j].progress = "pending"
        /\ hookCalls > 0

\* C17: the returned plan has insufficientFunds = TRUE exactly when the summed
\* USD value of the scanned balances is below the target; in that case both
\* strategies are null, the plan carries that sum, and no quote was requested;
\* the condition is a field of a returned plan.
C17_InsufficientIffBelowTarget ==
    PlanReturned
      => /\ depositPlan # NoPlan
         /\ depositPlan.insufficientFunds <=> RLt(SumUSD(allBalances), targetAmount)
         /\ depositPlan.availableBalanceUSD = SumUSD(allBalances)
         /\ depositPlan.insufficientFunds
              => /\ depositPlan.fastest = Null /\ depositPlan.cheapest = Null
                 /\ quoteLog = << >> /\ options = << >>

\* C17 witness: the wallet holds $0.50 of USDC in total, the target is $5, and
\* the plan returned says insufficientFunds with no strategy and no quote.
C17_Witness ==
    /\ PlanReturned
    /\ \A s \in Slots :
         wallet[s] = IF s = <<1, "0xa0b86991c6218b36c1d19d4a2e9eb0ce3606eb48">>
                     THEN 500000 ELSE 0
    /\ targetAmount = RInt(5)
    /\ depositPlan.insufficientFunds
    /\ depositPlan.fastest = Null /\ depositPlan.cheapest = Null
    /\ quoteLog = << >>

\* The balances getBridgeQuotes sends a request for: all but the destination
\* asset and those whose amount is 0.
Quotable(balances) ==
    SelectSeq(BalancesToQuote(balances),
              LAMBDA b : ~AtDestination(b) /\ AmountInSmallestUnit(b) # 0)

RequestOf(b) ==
    [chainId |-> b.chainId, tokenAddress |-> b.tokenAddress,
     fromAmount |-> AmountInSmallestUnit(b)]

\* s is t with some elements left out, in the same order.
RECURSIVE IsSubSeq(_, _)
IsSubSeq(s, t) ==
    IF s = << >> THEN TRUE
    ELSE IF t = << >> THEN FALSE
    ELSE IF Head(s) = Head(t) THEN IsSubSeq(Tail(s), Tail(t))
    ELSE IsSubSeq(s, Tail(t))

\* C18: calculateDepositPlan never rejects, whatever calls fail: before the
\* plan is returned there is a chain left to scan or a balance left to quote,
\* so the call goes on; every failure is absorbed; and
\* a plan that is not short of funds was built after a quote request for every
\* quotable balance, in order; the options are those of the requests that
\* succeeded, so a failed quote leaves out its own option only.
C18_PlanAlwaysReturned ==
    /\ phase \in {"scanning", "quoting", "select"}
    /\ phase # "select" => depositPlan = NoPlan
    /\ phase = "scanning" => chainIdx <= Len(Chains)
    /\ phase = "quoting" => quoteIdx <= Len(BalancesToQuote(allBalances))
    /\ PlanReturned
         => /\ depositPlan # NoPlan
            /\ ~depositPlan.insufficientFunds
                 => /\ quoteLog = [i \in DOMAIN Quotable(allBalances) |->
                                     RequestOf(Quotable(allBalances)[i])]
                    /\ IsSubSeq([i \in DOMAIN options |-> options[i].from],
                                Quotable(allBalances))
                    /\ Len(quoteLog) - Len(options) <= faults

\* C18 witness: two balances were to be quoted, the request for the first one
\* failed, and the plan returned is built on the option of the second.
C18_Witness ==
    /\ PlanReturned
    /\ Len(Quotable(allBalances)) = 2
    /\ Len(quoteLog) = 2
    /\ faults = 1
    /\ Len(options) = 1
    /\ options[1].from = Quotable(allBalances)[2]
    /\ depositPlan.fastest # Null

\* The calls of the scan made for an asset: the balance fetch, and the price
\* lookup of a native token.
CallsFor(slot) ==
    IF slot[2] = ZERO_ADDRESS
    THEN {<<slot[1], "native">>, <<slot[1], "price">>}
    ELSE {<<slot[1], StableFault[k]>> :
            k \in {j \in DOMAIN StablecoinTable(slot[1]) :
                      StablecoinTable(slot[1])[j].address = slot[2]}}

\* What the scan keeps of an asset when nothing fails.
ScanEntry(slot) ==
    IF slot[2] = ZERO_ADDRESS
    THEN NativeBalances(CHOOSE c \in {Chains[i] : i \in DOMAIN Chains} : c.id = slot[1],
                        TRUE)
    ELSE StableBalance(CHOOSE c \in {Chains[i] : i \in DOMAIN Chains} : c.id = slot[1],
                       CHOOSE s \in {StablecoinTable(slot[1])[j] :
                                       j \in DOMAIN StablecoinTable(slot[1])} :
                           s.address = slot[2])

Returned(slot) == \E i \in DOMAIN allBalances : SlotOf(allBalances[i]) = slot

\* C19: a failed fetch omits only its own entry: every asset whose own calls
\* did not fail, and which the scan keeps when nothing fails, is among the
\* balances returned, whatever failed for other assets of the same chain or
\* of other chains.
C19_FailureOmitsOnlyItsEntry ==
    PlanReturned
      => \A slot \in Slots :
            (CallsFor(slot) \cap scanFaults = {} /\ ScanEntry(slot) # << >>)
              => Returned(slot)

\* C19 witness: the wallet holds ETH and 12.05 USDC on Ethereum, the fetch of
\* the native balance failed, and the scan returned nothing: the USDC, whose
\* own fetch was never tried, is missing and the plan says insufficient funds.
C19_Witness ==
    /\ PlanReturned
    /\ wallet[<<1, ZERO_ADDRESS>>] > 0
    /\ wallet[<<1, "0xa0b86991c6218b36c1d19d4a2e9eb0ce3606eb48">>] = 12050000
    /\ scanFaults = {<<1, "native">>}
    /\ allBalances = << >>
    /\ depositPlan.insufficientFunds

\* The pre-classified messages of getDepositErrorMessage.
FriendlyMessages ==
    {FriendlyCancelled, FriendlyQuoteExpired, FriendlyInsufficient, FriendlyNetwork,
     FriendlySlippage, FriendlyValidation}

\* The raw messages of the errors caught for leg j.
RawErrorsOf(j) ==
    {errorLog[e].errorMessage : e \in {x \in DOMAIN errorLog : errorLog[x].leg = j}}

\* Some pattern of the classifier occurs in the message.
MatchesAPattern(errorMessage) ==
    IncludesAny(ToLowerCase(errorMessage),
        RejectionPatterns \cup QuoteExpiredPatterns \cup InsufficientPatterns
          \cup NetworkPatterns \cup SlippagePatterns \cup ValidationPatterns)

\* The raw messages handleExecute can catch: what the fresh quote and
\* executeRoute throw, and the fallback for a thrown value that is no Error.
RawMessages ==
    {MessageOf(thrown, MsgBridgeFailed) : thrown \in ExecuteThrows} \cup {MsgQuoteFailed}

\* The raw messages in which a pattern of the classifier occurs.
MatchingRawMessages == {raw \in RawMessages : MatchesAPattern(raw)}

\* The raw messages that are a rejection by the user.
RejectionRawMessages == {raw \in RawMessages : isUserRejection(raw)}

FailedLegs == {j \in DOMAIN executions : executions[j].status = "failed"}

\* C20 as stated: the error of every failed leg is one of the pre-classified
\* messages, never the raw error string of the collaborator.
C20_OnlyClassifiedMessages ==
    \A j \in FailedLegs : executions[j].error \in FriendlyMessages

\* C20, amended: a failed leg has exactly one caught error; its exposed error
\* is a pre-classified message exactly when the raw message contains one of
\* the classifier's patterns (the cancellation message for a rejection);
\* otherwise it is the raw message itself, cut to its first 100 characters
\* followed by "..." when it is longer.
C20_ClassifiedOrRaw ==
    \A j \in FailedLegs :
        /\ Cardinality(RawErrorsOf(j)) = 1
        /\ \A raw \in RawErrorsOf(j) :
             /\ raw \in RawMessages
             /\ executions[j].error \in FriendlyMessages <=> raw \in MatchingRawMessages
             /\ raw \in RejectionRawMessages => executions[j].error = FriendlyCancelled
             /\ raw \notin MatchingRawMessages
                  => executions[j].error =
                       IF Len(raw) > 100
                       THEN SubSeq(raw, 1, 100) \o << ".", ".", "." >>
                       ELSE raw

\* C20 witness: executeRoute failed with "execution reverted" and the failed
\* leg exposes exactly that raw message.
C20_Witness ==
    \E j \in FailedLegs :
        /\ MsgReverted \in RawErrorsOf(j)
        /\ executions[j].error = MsgReverted
        /\ executions[j].error \notin FriendlyMessages

\* The position of the leg of `st` taken from option `opt`; 0 when there is none.
LegOf(st, opt) ==
    IF \E k \in DOMAIN st.bridges : st.bridges[k].from = opt.from
    THEN CHOOSE k \in DOMAIN st.bridges : st.bridges[k].from = opt.from
    ELSE 0

\* Two options the comparator of `mode` does not order.
Tied(mode, a, b) == ~Before(mode, a, b) /\ ~Before(mode, b, a)

\* The pairs i < j of quoted options that tie on both sort keys of `mode`.
TiedPairs(mode) ==
    {p \in (DOMAIN options) \X (DOMAIN options) :
        p[1] < p[2] /\ Tied(mode, options[p[1]], options[p[2]])}

\* C21: a second call of calculateStrategies with the target and the options
\* of the returned plan yields the strategies of the plan, and options that
\* tie on both sort keys are taken in their input order: the later one is a
\* leg only after the earlier one was a leg or was passed over, and it is not
\* a leg when the earlier one brought the output to 95% of the target.
C21_DeterministicTieOrder ==
    (PlanReturned /\ options # << >>) =>
        /\ calculateStrategies(targetAmount, options)
             = [fastest |-> depositPlan.fastest, cheapest |-> depositPlan.cheapest]
        /\ \A st \in ReturnedStrategies : \A p \in TiedPairs(st.type) :
             LegOf(st, options[p[2]]) # 0 =>
                /\ \/ /\ LegOf(st, options[p[1]]) # 0
                      /\ LegOf(st, options[p[1]]) < LegOf(st, options[p[2]])
                   \/ /\ LegOf(st, options[p[1]]) = 0
                      /\ \E k \in 1..LegOf(st, options[p[2]]) :
                           Allocate(options[p[1]], NeedAt(st, k)).skip
                /\ RLt(OutputBefore(st, LegOf(st, options[p[2]])),
                       RMul(depositPlan.targetAmount, Rat(95, 100)))

\* C21 witness: two options with identical metrics on different chains, each
\* covering the target alone; the fastest strategy has one leg, the first.
C21_Witness ==
    /\ PlanReturned
    /\ Len(options) = 2
    /\ options[1].from.chainId # options[2].from.chainId
    /\ options[1].estimatedOutputUSD = options[2].estimatedOutputUSD
    /\ options[1].estimatedTimeSeconds = options[2].estimatedTimeSeconds
    /\ options[1].efficiency = options[2].efficiency
    /\ RLe(depositPlan.targetAmount, options[2].estimatedOutputUSD)
    /\ depositPlan.fastest # Null
    /\ Len(depositPlan.fastest.bridges) = 1
    /\ depositPlan.fastest.bridges[1].from = options[1].from
    /\ depositPlan.cheapest # Null
    /\ Len(depositPlan.cheapest.bridges) = 1
    /\ depositPlan.cheapest.bridges[1].from = options[1].from

\* The fields of a BridgeOption as getBridgeQuotes builds it.
OptionFields ==
    {"from", "quote", "estimatedOutputUSD", "estimatedTimeSeconds",
     "estimatedFeesUSD", "efficiency"}

\* The option with the fields of a leg that are not allocation fields.
WithoutAllocation(bridge) == [f \in OptionFields |-> bridge[f]]

\* The legs of `st` are allocated as the selection loop allocates them when
\* it runs on the quoted options alone.
AllocatedAlone(st) ==
    \A k \in DOMAIN st.bridges :
        /\ \E i \in DOMAIN options : options[i] = WithoutAllocation(st.bridges[k])
        /\ \E i \in DOMAIN options :
             /\ options[i].from = st.bridges[k].from
             /\ ~Allocate(options[i], NeedAt(st, k)).skip
             /\ Allocate(options[i], NeedAt(st, k)).bridge = st.bridges[k]

\* C22: once calculateStrategies has returned, the options list is what
\* getBridgeQuotes returned: the options are in the order of their quotes and
\* none has usedInputUSD, usedOutputUSD or usedInputAmount; every leg is a
\* copy of its option with the allocation of its own strategy, whatever the
\* other strategy allocates of the same option.
C22_InputUnchanged ==
    PlanReturned =>
        /\ \A i \in DOMAIN options : DOMAIN options[i] = OptionFields
        /\ IsSubSeq([i \in DOMAIN options |-> options[i].from],
                    BalancesToQuote(allBalances))
        /\ \A st \in ReturnedStrategies : AllocatedAlone(st)

\* C22 witness: an option is a leg of both strategies, with different
\* allocations.
C22_Witness ==
    /\ BothStrategies
    /\ \E k \in DOMAIN depositPlan.fastest.bridges :
         \E j \in DOMAIN depositPlan.cheapest.bridges :
            /\ depositPlan.fastest.bridges[k].from = depositPlan.cheapest.bridges[j].from
            /\ depositPlan.fastest.bridges[k].usedInputAmount
                 # depositPlan.cheapest.bridges[j].usedInputAmount
    /\ \A i \in DOMAIN options : DOMAIN options[i] = OptionFields

\* C23: in every returned strategy the output of the legs before any leg, and
\* so of all legs except the last, is below 95% of the target (and below the
\* target): no leg is added once the running output has reached it.
C23_NoLegAfterTolerance ==
    \A st \in ReturnedStrategies : \A k \in DOMAIN st.bridges :
        /\ RLt(OutputBefore(st, k), RMul(depositPlan.targetAmount, Rat(95, 100)))
        /\ RLt(OutputBefore(st, k), depositPlan.targetAmount)

\* C23 witness: a strategy of two legs or more whose last leg brings the
\* output from below 95% of the target to between 95% and 100% of it.
C23_Witness ==
    \E st \in ReturnedStrategies :
        /\ Len(st.bridges) >= 2
        /\ RLt(OutputBefore(st, Len(st.bridges)),
               RMul(depositPlan.targetAmount, Rat(95, 100)))
        /\ RLe(RMul(depositPlan.targetAmount, Rat(95, 100)), st.totalOutputUSD)
        /\ RLt(st.totalOutputUSD, depositPlan.targetAmount)

\* C24: every leg of every returned strategy has a non-zero usedInputAmount
\* and a usedOutputUSD of at least $1, so the running output strictly
\* increases with each leg and totalOutputUSD is the sum over the legs.
C24_LegsAboveDustFloor ==
    \A st \in ReturnedStrategies :
        /\ \A k \in DOMAIN st.bridges :
             /\ st.bridges[k].usedInputAmount > 0
             /\ RLe(RInt(1), st.bridges[k].usedOutputUSD)
             /\ RLt(OutputBefore(st, k), OutputBefore(st, k + 1))
        /\ st.totalOutputUSD = OutputBefore(st, Len(st.bridges) + 1)

\* C24 witness: a returned strategy passed over an option whose rounded amount
\* is not zero and whose output would be under $1, and has a leg.
C24_Witness ==
    \E st \in ReturnedStrategies : \E i \in DOMAIN options :
        /\ LegOf(st, options[i]) = 0
        /\ \E k \in 1..(Len(st.bridges) + 1) :
             /\ UsedInputAmount(options[i], NeedAt(st, k)) > 0
             /\ Allocate(options[i], NeedAt(st, k)).skip
        /\ st.bridges[1].usedInputAmount > 0

\* The order of the objective: for fastest, ascending estimatedTimeSeconds,
\* ties by descending estimatedOutputUSD; for cheapest, descending efficiency,
\* ties by descending estimatedOutputUSD.
KeyBefore(objective, a, b) ==
    IF objective = "fastest"
    THEN \/ a.estimatedTimeSeconds < b.estimatedTimeSeconds
         \/ /\ a.estimatedTimeSeconds = b.estimatedTimeSeconds
            /\ RLt(b.estimatedOutputUSD, a.estimatedOutputUSD)
    ELSE \/ RLt(b.efficiency, a.efficiency)
         \/ /\ a.efficiency = b.efficiency
            /\ RLt(b.estimatedOutputUSD, a.estimatedOutputUSD)

\* Option i comes before option j in the sorted order of the objective.
Precedes(objective, i, j) ==
    \/ KeyBefore(objective, options[i], options[j])
    \/ ~KeyBefore(objective, options[j], options[i]) /\ i < j

\* The index of the option a leg was copied from.
OptionIndex(bridge) == CHOOSE i \in DOMAIN options : options[i].from = bridge.from

\* The reasons for which the loop passes over an option when `need` is missing.
NothingAfterReserve(option) ==
    /\ isNativeToken(option.from.tokenAddress, option.from.tokenSymbol)
    /\ RLe(option.from.balance, getGasReserve(option.from.chainId))

RoundsToZero(option, need) == UsedInputAmount(option, need) = 0

UnderDustFloor(option, need) ==
    /\ UsedInputAmount(option, need) > 0
    /\ RLt(RMul(RDiv(Rat(UsedInputAmount(option, need),
                          Pow10(option.from.tokenDecimals)),
                      option.from.balance),
                 option.estimatedOutputUSD),
           RInt(1))

\* The legs of `st` that come before option i in the order of the objective.
LegsBefore(st, i) ==
    {k \in DOMAIN st.bridges : Precedes(st.type, OptionIndex(st.bridges[k]), i)}

\* C25: the legs of a returned strategy are options in the sorted order of the
\* objective, and an option that comes before the last leg in that order and
\* is no leg was passed over because nothing remains after the gas reserve,
\* its amount rounds to zero, or its output is under the dust floor.
C25_LegsInObjectiveOrder ==
    \A st \in ReturnedStrategies :
        /\ \A k \in DOMAIN st.bridges :
             \E i \in DOMAIN options : options[i].from = st.bridges[k].from
        /\ \A k \in DOMAIN st.bridges : \A m \in DOMAIN st.bridges :
             k < m => Precedes(st.type, OptionIndex(st.bridges[k]),
                               OptionIndex(st.bridges[m]))
        /\ \A i \in DOMAIN options :
             (/\ LegOf(st, options[i]) = 0
              /\ Precedes(st.type, i, OptionIndex(st.bridges[Len(st.bridges)])))
             => \/ NothingAfterReserve(options[i])
                \/ RoundsToZero(options[i],
                       NeedAt(st, Cardinality(LegsBefore(st, i)) + 1))
                \/ UnderDustFloor(options[i],
                       NeedAt(st, Cardinality(LegsBefore(st, i)) + 1))

\* C25 witness: the single leg or the last leg of a strategy follows, in the
\* order of the objective, an option that was passed over.
C25_Witness ==
    \E st \in ReturnedStrategies : \E i \in DOMAIN options :
        /\ LegOf(st, options[i]) = 0
        /\ Precedes(st.type, i, OptionIndex(st.bridges[Len(st.bridges)]))
        /\ KeyBefore(st.type, options[i], st.bridges[Len(st.bridges)])

\* A request was sent for entry i of the list.
RequestedAt(i) ==
    \E r \in DOMAIN quoteLog :
        /\ quoteLog[r].chainId = allBalances[i].chainId
        /\ quoteLog[r].tokenAddress = allBalances[i].tokenAddress

\* Entry j of the list could be quoted and was not.
LeftOutAt(j) ==
    /\ ~RequestedAt(j)
    /\ ~AtDestination(allBalances[j])
    /\ AmountInSmallestUnit(allBalances[j]) # 0

\* Every request went to a balance worth at least as much as any left out.
RequestedAreHighest ==
    \A j \in DOMAIN allBalances :
        LeftOutAt(j) =>
            \A i \in DOMAIN allBalances :
                RequestedAt(i) => RLe(allBalances[j].balanceUSD, allBalances[i].balanceUSD)

\* getBridgeQuotes has returned.
QuotesReturned == PlanReturned /\ ~depositPlan.insufficientFunds

SortedByUSD(balances) ==
    \A i \in DOMAIN balances : \A j \in DOMAIN balances :
        i < j => RLe(balances[j].balanceUSD, balances[i].balanceUSD)

\* The first 20 entries of the list, less the destination asset and the
\* amounts of 0.
FirstTwentyQuotable ==
    SelectSeq(SubSeq(allBalances, 1, IF Len(allBalances) < 20 THEN Len(allBalances) ELSE 20),
              LAMBDA b : ~AtDestination(b) /\ AmountInSmallestUnit(b) # 0)

\* C26 as stated: getBridgeQuotes requests at most 20 quotes, and the balances
\* it quotes are those with the highest balanceUSD of the list it is given,
\* whatever the order of the list.
C26_QuotesTopTwenty ==
    /\ Len(quoteLog) <= 20
    /\ QuotesReturned => RequestedAreHighest

\* C26, amended: getBridgeQuotes requests at most 20 quotes, one for each of
\* the first 20 entries of the list in the order of the list (but for the
\* destination asset and amounts of 0); these are the balances with the
\* highest balanceUSD when the list is sorted by descending balanceUSD, as
\* scanAllBalances returns it.
C26_QuotesFirstTwenty ==
    /\ Len(quoteLog) <= 20
    /\ QuotesReturned =>
         /\ quoteLog = [i \in DOMAIN FirstTwentyQuotable |->
                          RequestOf(FirstTwentyQuotable[i])]
         /\ SortedByUSD(allBalances) => RequestedAreHighest

\* C26 witness: a list of 21 balances with its most valuable one last; the
\* 20 requests went to the others.
C26_Witness ==
    /\ PlanReturned
    /\ Len(allBalances) = 21
    /\ Len(quoteLog) = 20
    /\ \A i \in 1..20 : RLt(allBalances[i].balanceUSD, allBalances[21].balanceUSD)
    /\ LeftOutAt(21)

\* singleBestStrategy of the selection step showing the plan.
SingleBest == Cards(depositPlan.fastest, depositPlan.cheapest).singleBestStrategy

\* The selection step presents a single best strategy and nothing is selected.
PresentsSingleBest ==
    /\ step = "select" /\ pc = "idle"
    /\ ~depositPlan.insufficientFunds
    /\ SingleBest # "none"
    /\ selectedStrategy = "none"

\* C27: whenever the selection step presents a single best strategy and
\* nothing is selected, a click on the execute button starts the execution
\* of the presented strategy.
C27_AutoPickAgrees ==
    [][(PresentsSingleBest /\ ClickExecute)
          => (step' = "executing" /\ strategyToUse' = SingleBest)]_vars

\* The part of C27 for the dominant case: when the strategies are not
\* identical, the click starts the presented strategy.
C27_DominantCaseAgrees ==
    [][(/\ PresentsSingleBest
        /\ ~strategiesAreIdentical(depositPlan.fastest, depositPlan.cheapest)
        /\ ClickExecute)
          => (step' = "executing" /\ strategyToUse' = SingleBest)]_vars

\* C27 witness: the strategies are identical, the only card is presented as
\* the best route, the button has been clicked, and nothing runs: the click
\* has selected the strategy and handleExecute has returned.
C27_Witness ==
    /\ step = "select" /\ pc = "idle"
    /\ depositPlan.fastest # Null /\ depositPlan.cheapest # Null
    /\ strategiesAreIdentical(depositPlan.fastest, depositPlan.cheapest)
    /\ SingleBest = "fastest"
    /\ selectedStrategy = "fastest"
    /\ strategyToUse = "none"
    /\ executions = << >>
    /\ calls = << >>

\* The balance is USDC on Arbitrum.
IsArbitrumUSDC(balance) ==
    /\ balance.chainId = 42161
    /\ balance.tokenAddress = "0xaf88d065e77c8cc2239327c5edb3a432268e5831"

\* C28: a scanned balance of USDC on Arbitrum counts toward
\* availableBalanceUSD, and no quote is requested and no option is built for
\* it; when it is the only scanned balance and covers the target the plan has
\* insufficientFunds = false and fastest = cheapest = null.
C28_DestinationBalanceNotBridged ==
    /\ \A r \in DOMAIN quoteLog :
         ~(quoteLog[r].chainId = 42161
           /\ quoteLog[r].tokenAddress = "0xaf88d065e77c8cc2239327c5edb3a432268e5831")
    /\ \A i \in DOMAIN options : ~IsArbitrumUSDC(options[i].from)
    /\ PlanReturned =>
         /\ depositPlan.availableBalanceUSD = SumUSD(allBalances)
         /\ \A st \in ReturnedStrategies : \A k \in DOMAIN st.bridges :
              ~IsArbitrumUSDC(st.bridges[k].from)
         /\ (/\ Len(allBalances) = 1
             /\ IsArbitrumUSDC(allBalances[1])
             /\ RLe(depositPlan.targetAmount, allBalances[1].balanceUSD))
            => /\ ~depositPlan.insufficientFunds
               /\ depositPlan.fastest = Null
               /\ depositPlan.cheapest = Null
               /\ options = << >>

\* C28 witness: the only scanned balance is 15 USDC on Arbitrum, the target is
\* covered, and the plan is the no-routes plan.
C28_Witness ==
    /\ PlanReturned
    /\ Len(allBalances) = 1
    /\ IsArbitrumUSDC(allBalances[1])
    /\ RLe(depositPlan.targetAmount, depositPlan.availableBalanceUSD)
    /\ ~depositPlan.insufficientFunds
    /\ depositPlan.fastest = Null /\ depositPlan.cheapest = Null

\* The progress of every step does not decrease from notification n to the
\* next one.
ProgressKept(n) ==
    \A s \in DOMAIN notifications[n].steps :
        notifications[n].steps[s].progress <= notifications[n + 1].steps[s].progress

\* C29: within one executeBridgeWithDetailedProgress call, while the
\* execution has not failed, the progress reported for a step never decreases
\* from one notification to the next.
C29_ProgressIncremental ==
    \A n \in 1..(Len(notifications) - 1) :
        notifications[n + 1].overallStatus # "failed" => ProgressKept(n)

\* The part of C29 that holds: for a quote with a single step the progress
\* never decreases while the execution has not failed.
C29_SingleStepIncremental ==
    \A n \in 1..(Len(notifications) - 1) :
        (notifications[n + 1].overallStatus # "failed" /\ Len(stepsInfo) = 1)
            => ProgressKept(n)

\* C29 witness: no process has failed and executeRoute has not thrown; a step
\* that was reported done at 100 is reported pending in the next notification.
C29_Witness ==
    /\ bridgePc = "executing"
    /\ route.status = "PENDING"
    /\ \A p \in DOMAIN route.process : route.process[p] # "FAILED"
    /\ \E n \in 1..(Len(notifications) - 1) : \E s \in DOMAIN stepsInfo :
         /\ notifications[n].steps[s] = DoneStep
         /\ notifications[n + 1].steps[s].status = "pending"
         /\ notifications[n + 1].steps[s].progress < 100

\* The run of handleExecute is past its early returns and not yet over.
RunStarted == pc # "idle"

RunTerminated == step = "complete" /\ overallComplete

\* Leg j failed with an error that isUserRejection recognises.
RejectedByUser(j) ==
    /\ executions[j].status = "failed"
    /\ \E e \in DOMAIN errorLog :
         errorLog[e].leg = j /\ isUserRejection(errorLog[e].errorMessage)

LegSettled(i) ==
    \/ executions[i].status \in {"completed", "failed"}
    \/ /\ executions[i].status = "pending"
       /\ \E j \in 1..(i - 1) : RejectedByUser(j)

\* C30: when every collaborator call eventually resolves or rejects, a run
\* started by handleExecute eventually reaches the complete step with
\* overallComplete set, and at the complete step every leg is completed or
\* failed, or still pending only after an earlier leg the user rejected.
C30_RunTerminates ==
    /\ RunStarted ~> RunTerminated
    /\ [](RunTerminated => \A i \in DOMAIN executions : LegSettled(i))

\* C30 witness: a finished run with a leg left pending behind a leg the user
\* rejected, after an earlier leg was bridged and settled.
C30_Witness ==
    /\ RunTerminated
    /\ hyperLiquidDeposit # Null
    /\ \E i \in DOMAIN executions :
         /\ executions[i].status = "pending"
         /\ \E j \in 1..(i - 1) : RejectedByUser(j)

====
